---------------------------- MODULE Spec2Model ----------------------------
(***************************************************************************)
(* A model of the timeline engine of QuizVideoEngine                       *)
(* (src/shortGPT/engine/quiz_video_engine.py): script parsing, speech      *)
(* fitting, composite audio mixing, countdown partition, background video  *)
(* window selection and the editing steps handed to the renderer.          *)
(*                                                                         *)
(* Text is a sequence of one-character strings; the regular expression of  *)
(* the parser is evaluated on those characters.  Times are whole ticks,    *)
(* with Sec ticks in one second; the Python floats of the source are       *)
(* modelled as the exact rationals they approximate.                       *)
(***************************************************************************)
EXTENDS Integers, Sequences, FiniteSets, TLC

\* One millisecond is 3 * 10 ticks, so that a third (countdown partition) and
\* a tenth (safety margin) of a millisecond-aligned time are whole ticks.
Ms == 3 * 10
Sec == 1000 * Ms

Max(a, b) == IF a >= b THEN a ELSE b
Min(a, b) == IF a <= b THEN a ELSE b

\* Python's None, and an attribute that is not set
None == [none |-> TRUE]

---------------------------------------------------------------------------
(* Characters *)

Digits == {"0", "1", "2", "3", "4", "5", "6", "7", "8", "9"}
UpperLetters ==
    <<"A","B","C","D","E","F","G","H","I","J","K","L","M",
      "N","O","P","Q","R","S","T","U","V","W","X","Y","Z">>
LowerLetters ==
    <<"a","b","c","d","e","f","g","h","i","j","k","l","m",
      "n","o","p","q","r","s","t","u","v","w","x","y","z">>
Range(s) == {s[i] : i \in 1..Len(s)}
\* the word class of the regular expression
WordChars == Range(UpperLetters) \cup Range(LowerLetters) \cup Digits \cup {"_"}
\* the blank class of the regular expression, and what str.strip() removes
WhiteSpace == {" ", "\t"}

LetterIndex(letters, c) == CHOOSE i \in 1..Len(letters) : letters[i] = c
\* str.lower() and str.upper(), one character at a time
LowerChar(c) ==
    IF c \in Range(UpperLetters) THEN LowerLetters[LetterIndex(UpperLetters, c)] ELSE c
UpperChar(c) ==
    IF c \in Range(LowerLetters) THEN UpperLetters[LetterIndex(LowerLetters, c)] ELSE c
Lower(s) == [i \in 1..Len(s) |-> LowerChar(s[i])]
Upper(s) == [i \in 1..Len(s) |-> UpperChar(s[i])]

\* line.strip(): the text between the first and the last non-blank character
Strip(s) ==
    LET inked == {i \in 1..Len(s) : s[i] \notin WhiteSpace}
    IN  IF inked = {} THEN <<>>
        ELSE SubSeq(s, CHOOSE i \in inked : \A j \in inked : i <= j,
                       CHOOSE i \in inked : \A j \in inked : i >= j)

---------------------------------------------------------------------------
\* The line grammar of re.match: "[" number "-" number "]", blanks, a word,
\* ":", blanks, and at least one character of content; a number is one or more
\* digits, an optional dot, and any more digits.

\* The position after the longest run of characters of class cls from i on
RECURSIVE RunEnd(_, _, _)
RunEnd(s, i, cls) ==
    IF i <= Len(s) /\ s[i] \in cls THEN RunEnd(s, i + 1, cls) ELSE i

At(s, i, c) == i <= Len(s) /\ s[i] = c

\* A number that must have a digit behind its dot
NumberEndStrict(s, i) ==
    LET a == RunEnd(s, i, Digits)
        b == RunEnd(s, a + 1, Digits)
    IN  IF a = i THEN 0
        ELSE IF At(s, a, ".") THEN (IF b = a + 1 THEN 0 ELSE b) ELSE a
\* A number from position i: the position after it, or 0 when it does not match
NumberEnd(s, i) ==
    LET a == RunEnd(s, i, Digits)
        b == IF At(s, a, ".") THEN a + 1 ELSE a
    IN  IF a = i THEN 0 ELSE RunEnd(s, b, Digits)

DigitChars == <<"0","1","2","3","4","5","6","7","8","9">>
DigitValue(c) == CHOOSE n \in 0..9 : DigitChars[n + 1] = c

RECURSIVE DigitsValue(_)
DigitsValue(s) ==
    IF s = <<>> THEN 0
    ELSE 10 * DigitsValue(SubSeq(s, 1, Len(s) - 1)) + DigitValue(s[Len(s)])

RECURSIVE Pow10(_)
Pow10(n) == IF n = 0 THEN 1 ELSE 10 * Pow10(n - 1)

\* float() of a matched number, in ticks
ToFloat(s) ==
    LET dots == {i \in 1..Len(s) : s[i] = "."}
        dot  == IF dots = {} THEN Len(s) + 1 ELSE CHOOSE i \in dots : TRUE
        whole == SubSeq(s, 1, dot - 1)
        frac  == SubSeq(s, dot + 1, Len(s))
    IN  DigitsValue(whole) * Sec + (DigitsValue(frac) * Sec) \div Pow10(Len(frac))

NoMatch == [matched |-> FALSE]

\* re.match on one (already stripped) line: the four groups, or no match
MatchLine(line) ==
    LET e1 == NumberEnd(line, 2)
        e2 == IF e1 = 0 THEN 0 ELSE NumberEnd(line, e1 + 1)
        s1 == RunEnd(line, e2 + 1, WhiteSpace)
        w  == RunEnd(line, s1, WordChars)
        s2 == RunEnd(line, w + 1, WhiteSpace)
        \* the blanks are matched greedily and give one back when the content
        \* would otherwise be empty
        c  == IF s2 <= Len(line) THEN s2
              ELSE IF s2 > w + 1 THEN Len(line) ELSE 0
    IN  IF /\ At(line, 1, "[")
           /\ e1 # 0 /\ At(line, e1, "-")
           /\ e2 # 0 /\ At(line, e2, "]")
           /\ w > s1 /\ At(line, w, ":")
           /\ c # 0
        THEN [matched |-> TRUE,
              g1 |-> SubSeq(line, 2, e1 - 1),
              g2 |-> SubSeq(line, e1 + 1, e2 - 1),
              g3 |-> SubSeq(line, s1, w - 1),
              g4 |-> SubSeq(line, c, Len(line))]
        ELSE NoMatch

---------------------------------------------------------------------------
(* _parse_quiz_script *)

\* The component types the parser and the later stages compare with
TypeQuestion  == <<"q","u","e","s","t","i","o","n">>
TypeCountdown == <<"c","o","u","n","t","d","o","w","n">>
TypeAnswer    == <<"a","n","s","w","e","r">>
TypeCta       == <<"c","t","a">>
TypeIntro     == <<"i","n","t","r","o">>

\* A component that starts a second later than its line says
ComponentDelayed(m) ==
    [start_time |-> ToFloat(m.g1) + Sec,
     end_time   |-> ToFloat(m.g2),
     content    |-> m.g4,
     type       |-> Lower(m.g3)]
\* The component dictionary built from one match
Component(m) ==
    [start_time |-> ToFloat(m.g1),
     end_time   |-> ToFloat(m.g2),
     content    |-> m.g4,
     type       |-> Lower(m.g3)]

\* One pass of the loop over the lines: nothing for a blank or unmatched line
MatchComponents(m) == IF ~m.matched THEN <<>> ELSE <<Component(m)>>
StrippedLineComponents(stripped) ==
    IF stripped = <<>> THEN <<>> ELSE MatchComponents(MatchLine(stripped))
LineComponents(line) == StrippedLineComponents(Strip(line))

RECURSIVE ParsedComponents(_)
ParsedComponents(lines) ==
    IF lines = <<>> THEN <<>>
    ELSE LineComponents(Head(lines)) \o ParsedComponents(Tail(lines))

\* list.insert of x behind every element whose start_time is not larger
RECURSIVE InsertByStart(_, _)
InsertByStart(sorted, x) ==
    IF sorted = <<>> THEN <<x>>
    ELSE IF sorted[Len(sorted)].start_time <= x.start_time THEN Append(sorted, x)
    ELSE Append(InsertByStart(SubSeq(sorted, 1, Len(sorted) - 1), x),
                sorted[Len(sorted)])

\* No sort at all
SortByStartTimeKeepOrder(cs) == cs
\* all_components.sort(key=start_time): a stable sort
RECURSIVE SortByStartTime(_)
SortByStartTime(cs) ==
    IF cs = <<>> THEN <<>>
    ELSE InsertByStart(SortByStartTime(SubSeq(cs, 1, Len(cs) - 1)), cs[Len(cs)])

ShiftComponent(c, d) ==
    [c EXCEPT !.start_time = @ + d, !.end_time = @ + d]

IntroComponent(text, duration) ==
    [start_time |-> 0, end_time |-> duration, content |-> text, type |-> TypeIntro]

\* Whether the intro animation is added: "if self._intro_text and
\* self._intro_duration > 0"
IntroSpecified(text, duration) == text # <<>> /\ duration > 0

OfType(cs, t) == SelectSeq(cs, LAMBDA c : c.type = t)

\* The intro step: with an intro every parsed component moves later by its
\* duration
ShiftAll(parsed, text, duration) ==
    IF IntroSpecified(text, duration)
    THEN [i \in 1..Len(parsed) |-> ShiftComponent(parsed[i], duration)]
    ELSE parsed
\* components['intro'], and what is inserted in front of all_components
IntroKey(text, duration) ==
    IF IntroSpecified(text, duration)
    THEN <<IntroComponent(text, duration)>> ELSE <<>>

\* The backward-compatibility keys 'question', 'countdown', 'answer' and 'cta'
\* are set for a script of one question, one countdown and one answer
SingleKeys(qs, cds, as, cs) ==
    IF Len(qs) = 1 /\ Len(cds) = 1 /\ Len(as) = 1
    THEN [question |-> qs, countdown |-> cds, answer |-> as,
          cta |-> IF cs # <<>> THEN <<cs[1]>> ELSE <<>>]
    ELSE [question |-> <<>>, countdown |-> <<>>, answer |-> <<>>, cta |-> <<>>]

\* The dictionary, from the parsed components after the intro shift.  A key
\* the source sets only sometimes ('intro', 'question', 'countdown', 'answer',
\* 'cta') is a sequence that is empty when the key is absent.  The component
\* dictionaries are shared between the lists, so the shift shows in every list.
Timeline(script, shifted, intro, single) ==
    [all_components |-> SortByStartTime(intro \o shifted),
     questions  |-> OfType(shifted, TypeQuestion),
     countdowns |-> OfType(shifted, TypeCountdown),
     answers    |-> OfType(shifted, TypeAnswer),
     ctas       |-> OfType(shifted, TypeCta),
     raw_script |-> script,
     intro      |-> intro,
     question   |-> single.question,
     countdown  |-> single.countdown,
     answer     |-> single.answer,
     cta        |-> single.cta]
ShiftedTimeline(script, shifted, intro) ==
    Timeline(script, shifted, intro,
             SingleKeys(OfType(shifted, TypeQuestion), OfType(shifted, TypeCountdown),
                        OfType(shifted, TypeAnswer), OfType(shifted, TypeCta)))

\* _parse_quiz_script
ParseQuizScript(script, text, duration) ==
    ShiftedTimeline(script, ShiftAll(ParsedComponents(script), text, duration),
                    IntroKey(text, duration))

---------------------------------------------------------------------------
(* _generateCountdownSegmentsForComponent and _generateCountdownSegments *)

CountdownNumbers == <<"3", "2", "1">>

\* Three segments that count up
GenerateCountdownSegmentsCountingUp(countdown_component) ==
    LET start_time == countdown_component.start_time
        duration == countdown_component.end_time - start_time
        segment_duration == duration \div 3
    IN  [k \in 1..3 |->
            [segment_start |-> start_time + ((k - 1) * segment_duration),
             segment_end   |-> start_time + (k * segment_duration),
             number        |-> CountdownNumbers[4 - k]]]
\* The three (segment_start, segment_end, number) tuples of one countdown
GenerateCountdownSegmentsForComponent(countdown_component) ==
    LET start_time == countdown_component.start_time
        duration == countdown_component.end_time - start_time
        segment_duration == duration \div 3
    IN  [k \in 1..3 |->
            [segment_start |-> start_time + ((k - 1) * segment_duration),
             segment_end   |-> start_time + (k * segment_duration),
             number        |-> CountdownNumbers[k]]]

\* The legacy form reads the single 'countdown' key and returns [] without it
GenerateCountdownSegments(components) ==
    IF components.countdown = <<>> THEN <<>>
    ELSE GenerateCountdownSegmentsForComponent(components.countdown[1])

---------------------------------------------------------------------------
(* _cleanContentForAudio *)

Contains(s, pat) ==
    \E i \in 1..(Len(s) - Len(pat) + 1) : SubSeq(s, i, i + Len(pat) - 1) = pat

\* str.replace(old, new): left to right, without overlap
RECURSIVE ReplaceAll(_, _, _)
ReplaceAll(s, old, new) ==
    IF Len(s) < Len(old) THEN s
    ELSE IF SubSeq(s, 1, Len(old)) = old
         THEN new \o ReplaceAll(SubSeq(s, Len(old) + 1, Len(s)), old, new)
         ELSE <<s[1]>> \o ReplaceAll(Tail(s), old, new)

\* re.sub of one or more characters of class cls by the single character one
RECURSIVE CollapseRuns(_, _, _)
CollapseRuns(s, cls, one) ==
    IF s = <<>> THEN <<>>
    ELSE IF s[1] \in cls
         THEN <<one>> \o CollapseRuns(SubSeq(s, RunEnd(s, 1, cls), Len(s)), cls, one)
         ELSE <<s[1]>> \o CollapseRuns(Tail(s), cls, one)

\* An emoji is one character of the text, written here by its name
EmojiFlagFrance == "{flag-fr}"
RemovedSymbols ==
    <<"[", "]", "{art}", "{trophy}", "{abacus}", "{skull}", "{party}",
      "{sparkles}", "{bulb}", "{glowing-star}", "{fire}", "{100}", "{crown}",
      "{rocket}", "{star}", "{globe}", "{dart}", "{gem}", "{circus}">>
French == <<"F","r","e","n","c","h">>

\* emoji_replacements, in the order of the dictionary
EmojiReplacements ==
    <<[old |-> <<EmojiFlagFrance>>, new |-> French]>>
      \o [i \in 1..Len(RemovedSymbols) |-> [old |-> <<RemovedSymbols[i]>>, new |-> <<>>]]

RECURSIVE ApplyReplacements(_, _)
ApplyReplacements(s, reps) ==
    IF reps = <<>> THEN s
    ELSE ApplyReplacements(ReplaceAll(s, reps[1].old, reps[1].new), Tail(reps))

PhraseCityOfLight == <<"T","h","e"," ","C","i","t","y"," ","o","f"," ","L","i","g","h","t","!">>
PhraseAmazing == <<"A","m","a","z","i","n","g",","," ","r","i","g","h","t","?">>
PhraseQuickMath == <<"Q","u","i","c","k"," ","m","a","t","h","!">>
VisualPhrases == <<PhraseCityOfLight, PhraseAmazing, PhraseQuickMath>>
Paris == <<"P","a","r","i","s">>
ParisCityOfLight == Paris \o <<"!", " ">> \o PhraseCityOfLight

\* One pass of the loop over visual_phrases
RemovePhrase(cleaned, phrase) ==
    IF ~Contains(cleaned, phrase) THEN cleaned
    ELSE IF Contains(cleaned, ParisCityOfLight)
         THEN ReplaceAll(cleaned, ParisCityOfLight, Paris)
         ELSE Strip(ReplaceAll(cleaned, phrase, <<>>))

RECURSIVE RemovePhrases(_, _)
RemovePhrases(cleaned, phrases) ==
    IF phrases = <<>> THEN cleaned
    ELSE RemovePhrases(RemovePhrase(cleaned, phrases[1]), Tail(phrases))

\* The four stages in order, each on the finished text of the one before
CleanContentForAudio(content) ==
    CHOOSE cleaned \in
        {RemovePhrases(spaced, VisualPhrases) :
            spaced \in
                {Strip(CollapseRuns(single, WhiteSpace, " ")) :
                    single \in
                        {CollapseRuns(replaced, {"!"}, "!") :
                            replaced \in
                                {ApplyReplacements(content, EmojiReplacements)}}}} :
        TRUE

ThreeTwoOne ==
    <<"T","h","r","e","e","."," ","T","w","o","."," ","O","n","e",".">>

\* The text handed to the voice module for one component
AudioText(component) ==
    IF component.type = TypeCountdown THEN ThreeTwoOne
    ELSE CleanContentForAudio(component.content)

---------------------------------------------------------------------------
(* _generateComponentAudioFiles: one clip per component, fitted to its slot *)

\* The first k decimals of r / den for 0 <= r < den, as a whole number
RECURSIVE FractionDigits(_, _, _)
FractionDigits(r, den, k) ==
    IF k = 0 THEN 0
    ELSE ((10 * r) \div den) * Pow10(k - 1)
            + FractionDigits((10 * r) % den, den, k - 1)
\* floor(1000 * num / den) for den > 0
Thousandths(num, den) == ((num \div den) * 1000) + FractionDigits(num % den, den, 3)
\* round(1000 * num / den) for den > 0: the factor as "{speed_factor:.3f}"
\* writes it, in thousandths
RoundMilli(num, den) == (Thousandths(2 * num, den) + 1) \div 2

\* The clip written to audio_path for one component.  raw is the length of the
\* normalized speech, probe_ok whether _getAudioDuration could measure it (it
\* returns 0.0 when it could not).  atempo=f gives a clip of length raw / f.
FitClip(required_duration, raw, probe_ok) ==
    LET actual_duration == IF probe_ok THEN raw ELSE 0
    IN  IF actual_duration > 0
        THEN IF required_duration = 0
             THEN [outcome |-> "ZeroDivisionError"]
             ELSE IF required_duration > 0 /\ actual_duration > required_duration
                  THEN LET atempo == RoundMilli(actual_duration, required_duration)
                       IN  [outcome |-> "ok", raw |-> raw,
                            actual_duration |-> actual_duration,
                            stretched |-> TRUE, atempo |-> atempo,
                            duration |-> Thousandths(raw, atempo)]
                  ELSE [outcome |-> "ok", raw |-> raw,
                        actual_duration |-> actual_duration,
                        stretched |-> FALSE, atempo |-> 1000, duration |-> raw]
        ELSE [outcome |-> "ok", raw |-> raw, actual_duration |-> actual_duration,
              stretched |-> FALSE, atempo |-> 1000, duration |-> raw]

\* The synthesized speech of one component: how much longer than its slot the
\* voice module made it, whether its length can be measured, and whether the
\* voice module made it at all
SpeechExcess == {0 - (1000 * Ms), 0, 190 * Ms}
SpeechChoices ==
    {[excess |-> e, probe_ok |-> TRUE, voice_ok |-> TRUE] : e \in SpeechExcess}
        \cup {[excess |-> 1500 * Ms, probe_ok |-> FALSE, voice_ok |-> TRUE],
              [excess |-> 0, probe_ok |-> TRUE, voice_ok |-> FALSE]}
RawDuration(required_duration, choice) == Max(required_duration, 0) + choice.excess

\* The entry stored under component_key = "<type>_<i>"; clip is the file at
\* 'path' (its measured length, the tempo applied, its true length)
AudioInfo(component, i, audio_text, clip) ==
    [key        |-> [type |-> component.type, index |-> i],
     start_time |-> component.start_time,
     end_time   |-> component.end_time,
     text       |-> audio_text,
     type       |-> component.type,
     component  |-> component,
     clip       |-> clip]

\* The loop over all_components from position i on (i counts from 1; the
\* source's index is i - 1).  The result is the dictionary as a sequence in
\* insertion order, or the error that ended the loop.
RECURSIVE FitComponents(_, _, _, _)
FitComponents(all_components, speech, i, done) ==
    IF i > Len(all_components) THEN [outcome |-> "ok", files |-> done]
    ELSE LET component == all_components[i]
             audio_text == AudioText(component)
             required_duration == component.end_time - component.start_time
             clip == FitClip(required_duration,
                             RawDuration(required_duration, speech[i]),
                             speech[i].probe_ok)
         IN  IF audio_text = <<>>
             THEN FitComponents(all_components, speech, i + 1, done)
             ELSE IF ~speech[i].voice_ok
                  THEN [outcome |-> "SynthesisError", files |-> done]
             ELSE IF clip.outcome # "ok"
                  THEN [outcome |-> clip.outcome, files |-> done]
                  ELSE FitComponents(all_components, speech, i + 1,
                                     Append(done, AudioInfo(component, i - 1, audio_text,
                                                            clip)))

GenerateComponentAudioFiles(components, speech) ==
    FitComponents(components.all_components, speech, 1, <<>>)

---------------------------------------------------------------------------
(* _createCompositeAudioTrack and _addSoundEffectsToMix *)

RECURSIVE MaxEndTime(_, _)
MaxEndTime(cs, total) ==
    IF cs = <<>> THEN total
    ELSE MaxEndTime(Tail(cs), IF cs[1].end_time > total THEN cs[1].end_time ELSE total)

\* The values of the dictionary that are themselves component dictionaries
OldStructure(components) ==
    components.intro \o components.question \o components.countdown
        \o components.answer \o components.cta

\* total_duration as _createCompositeAudioTrack computes it
CompositeTotalDuration(components) ==
    LET total == MaxEndTime(components.all_components, 0)
    IN  IF total = 0 THEN MaxEndTime(OldStructure(components), 0) ELSE total

\* int(t * 1000), for adelay
DelayMs(t) == t \div Ms

\* What ffmpeg -ss offset -t length cuts from a clip of the given duration
CutDuration(duration, offset, length) == Max(0, Min(length, duration - offset))

\* One input of the mix after the silent base: the file, its gain in tenths,
\* its adelay in milliseconds and the length of the file
MixInput(path, volume, delay_ms, duration) ==
    [path |-> path, volume |-> volume, delay_ms |-> delay_ms, duration |-> duration]

\* countdown_segment_<key>_<i>.wav: the piece that ffmpeg -ss ... -t ... cuts
\* from the clip of a countdown, as an input of the mix
CountdownSegmentInput(audio_info, i, segment_start_time, segment_start_in_audio, segment_duration) ==
    [path |-> [file |-> "countdown_segment", key |-> audio_info.key, i |-> i],
     volume |-> 9,
     delay_ms |-> DelayMs(segment_start_time),
     duration |-> CutDuration(audio_info.clip.duration,
                              segment_start_in_audio, segment_duration),
     ss |-> segment_start_in_audio,
     t |-> segment_duration]

\* The three countdown_segment_<key>_<i>.wav inputs cut from one countdown clip
CountdownInputs(audio_info) ==
    LET countdown_component == audio_info.component
        countdown_duration ==
            countdown_component.end_time - countdown_component.start_time
        segment_duration == countdown_duration \div 3
    IN  [k \in 1..3 |->
            CountdownSegmentInput(
                audio_info, k - 1,
                countdown_component.start_time + ((k - 1) * segment_duration),
                (k - 1) * segment_duration, segment_duration)]

\* A mix that takes a countdown clip whole, as one input
ComponentInputsWhole(audio_info) ==
    <<MixInput([file |-> "component_audio", key |-> audio_info.key], 9,
               DelayMs(audio_info.start_time), audio_info.clip.duration)>>
ComponentInputs(audio_info) ==
    IF audio_info.type = TypeCountdown THEN CountdownInputs(audio_info)
    ELSE <<MixInput([file |-> "component_audio", key |-> audio_info.key], 9,
                    DelayMs(audio_info.start_time), audio_info.clip.duration)>>

RECURSIVE AllComponentInputs(_)
AllComponentInputs(sorted_components) ==
    IF sorted_components = <<>> THEN <<>>
    ELSE ComponentInputs(sorted_components[1]) \o AllComponentInputs(Tail(sorted_components))

\* A sound effect path: None, or the file with the length of its sound
SoundFile(name, duration) == [file |-> name, duration |-> duration]

\* _addSoundEffectsToMix for one component
SoundEffectInputs(component, sounds) ==
    LET start_time == component.start_time
        segment_duration == (component.end_time - start_time) \div 3
    IN  IF component.type = TypeIntro /\ sounds.intro # None
        THEN <<MixInput(sounds.intro, 7, DelayMs(start_time), sounds.intro.duration)>>
        ELSE IF component.type = TypeCountdown /\ sounds.countdown # None
        THEN [k \in 1..3 |->
                 MixInput(sounds.countdown, 7,
                          DelayMs(start_time + ((k - 1) * segment_duration)),
                          sounds.countdown.duration)]
        ELSE IF component.type = TypeAnswer /\ sounds.answer # None
        THEN <<MixInput(sounds.answer, 7, DelayMs(start_time), sounds.answer.duration)>>
        ELSE <<>>

RECURSIVE AddSoundEffectsToMix(_, _)
AddSoundEffectsToMix(all_components, sounds) ==
    IF all_components = <<>> THEN <<>>
    ELSE SoundEffectInputs(all_components[1], sounds)
            \o AddSoundEffectsToMix(Tail(all_components), sounds)

\* amix ... duration=longest: the output lasts as long as its longest input,
\* the silent base or a delayed input
RECURSIVE LongestInput(_, _)
LongestInput(inputs, longest) ==
    IF inputs = <<>> THEN longest
    ELSE LongestInput(Tail(inputs),
                      Max(longest, (inputs[1].delay_ms * Ms) + inputs[1].duration))

\* The composite track, when every subprocess succeeds.  audio_files is None
\* while the attribute _db_component_audio_files is not set, and holds the
\* dictionary in 'files' when it is.
CreateCompositeAudioTrack(components, audio_files, use_effects, sounds) ==
    LET total_duration == CompositeTotalDuration(components)
        has_files == audio_files # None
        sorted_components ==
            IF has_files THEN SortByStartTime(audio_files.files) ELSE <<>>
        audio_inputs ==
            AllComponentInputs(sorted_components)
                \o (IF has_files /\ use_effects
                    THEN AddSoundEffectsToMix(components.all_components, sounds)
                    ELSE <<>>)
        input_index == 1 + Len(audio_inputs)
    IN  IF audio_inputs # <<>>
        THEN [path |-> "composite_audio.wav",
              total_duration |-> total_duration,
              audio_inputs |-> audio_inputs,
              amix_inputs |-> input_index,
              weights |-> [k \in 1..input_index |-> 10],
              normalize |-> 0,
              loudnorm_passes |-> 1,
              duration |-> LongestInput(audio_inputs, total_duration)]
        ELSE [path |-> "composite_audio.wav",
              total_duration |-> total_duration,
              audio_inputs |-> <<>>,
              amix_inputs |-> 0,
              weights |-> <<>>,
              normalize |-> 0,
              loudnorm_passes |-> 0,
              duration |-> total_duration]

\* The subprocess steps of one _createCompositeAudioTrack, in the order they
\* run, each with the file it writes: the silent base, one cut for every
\* countdown segment, and the mix and its normalization when there are inputs
SilenceStep == [step |-> "silence", output |-> [file |-> "silent_base.wav"]]
CutSteps(segments) ==
    [k \in 1..Len(segments) |-> [step |-> "cut", output |-> segments[k].path]]
MixSteps(audio_inputs) ==
    <<SilenceStep>>
        \o CutSteps(SelectSeq(audio_inputs,
                              LAMBDA input : input.path.file = "countdown_segment"))
        \o (IF audio_inputs # <<>>
            THEN <<[step |-> "mix", output |-> [file |-> "composite_audio.wav"]],
                   [step |-> "normalize",
                    output |-> [file |-> "temp_final_normalized.wav"]]>>
            ELSE <<>>)

\* The files of the run that are on disk when the call exits.  fail_step is
\* the step whose subprocess failed (check=True raises there), 0 when none
\* did; partial says whether the failed ffmpeg left its output file.  The
\* countdown segments are removed after the mix, everything else only on the
\* way to the return.
FilesAfter(steps, fail_step, partial) ==
    IF fail_step = 0 THEN {[file |-> "composite_audio.wav"]}
    ELSE IF steps[fail_step].step = "normalize"
    THEN {f \in {steps[j].output : j \in 1..(fail_step - 1)}
                    \cup (IF partial THEN {steps[fail_step].output} ELSE {}) :
             f.file # "countdown_segment"}
    ELSE {steps[j].output : j \in 1..(fail_step - 1)}
             \cup (IF partial THEN {steps[fail_step].output} ELSE {})

---------------------------------------------------------------------------
(* _editAndRenderShort: the editing steps handed to the renderer *)

\* The overlay steps of one component
OverlaySteps(component) ==
    LET timed(step, text) ==
            <<[step |-> step, text |-> text,
               set_time_start |-> component.start_time,
               set_time_end |-> component.end_time]>>
        segments == GenerateCountdownSegmentsForComponent(component)
    IN  IF component.type = TypeIntro
        THEN timed("ADD_INTRO_ANIMATION", Upper(component.content))
        ELSE IF component.type = TypeQuestion
        THEN timed("ADD_QUIZ_QUESTION", Upper(component.content))
        ELSE IF component.type = TypeAnswer
        THEN timed("ADD_QUIZ_ANSWER", component.content)
        ELSE IF component.type = TypeCta
        THEN timed("ADD_QUIZ_CTA", Upper(component.content))
        ELSE IF component.type = TypeCountdown
        THEN [k \in 1..3 |->
                 [step |-> "ADD_COUNTDOWN_OVERLAY", text |-> <<segments[k].number>>,
                  set_time_start |-> segments[k].segment_start,
                  set_time_end |-> segments[k].segment_end]]
        ELSE <<>>

RECURSIVE AllOverlaySteps(_)
AllOverlaySteps(all_components) ==
    IF all_components = <<>> THEN <<>>
    ELSE OverlaySteps(all_components[1]) \o AllOverlaySteps(Tail(all_components))

\* total_duration as _editAndRenderShort computes it for the background video
RenderTotalDuration(components) ==
    LET total == MaxEndTime(components.all_components, 0)
    IN  IF total = 0 THEN MaxEndTime(OldStructure(components), 0) ELSE total

\* The end time of the last component
GetQuizDurationOfLast(components) ==
    IF components.all_components # <<>>
    THEN components.all_components[Len(components.all_components)].end_time
    ELSE MaxEndTime(OldStructure(components), 0)
\* _get_quiz_duration: the largest end_time of all_components, and of the
\* old structure only when all_components is empty
GetQuizDuration(components) ==
    IF components.all_components # <<>>
    THEN MaxEndTime(components.all_components, 0)
    ELSE MaxEndTime(OldStructure(components), 0)

\* Every addEditingStep call of one render, in order
EditingSteps(components, composite_audio_path, timed_video_urls, watermark) ==
    <<[step |-> "ADD_VOICEOVER_AUDIO", url |-> composite_audio_path]>>
      \o (IF timed_video_urls # <<>>
          THEN <<[step |-> "ADD_BACKGROUND_VIDEO", url |-> timed_video_urls[1].url,
                  set_time_start |-> 0,
                  set_time_end |-> RenderTotalDuration(components)]>>
          ELSE <<>>)
      \o AllOverlaySteps(components.all_components)
      \o (IF watermark # <<>>
          THEN <<[step |-> "ADD_WATERMARK", text |-> watermark]>>
          ELSE <<>>)

---------------------------------------------------------------------------
(* _calculate_video_timing *)

\* How finely random.uniform(0, max_start_time) is sampled: the draws are the
\* multiples of max_start_time / RandomSteps, both ends included
RandomSteps == 4

\* A start drawn from the whole video, with no room kept for the quiz
CalculateVideoTimingAnywhere(video_duration, quiz_duration_given, draw) ==
    LET quiz_duration == IF quiz_duration_given <= 0 THEN 30 * Sec
                         ELSE quiz_duration_given
        start_time == (video_duration * draw) \div RandomSteps
    IN  IF video_duration <= quiz_duration \/ video_duration = 0
        THEN [start_time |-> 0,
              end_time |-> IF video_duration > 0 THEN video_duration ELSE quiz_duration]
        ELSE [start_time |-> start_time, end_time |-> start_time + quiz_duration]
\* (start_time, end_time) for the draw-th sample of the random start
CalculateVideoTiming(video_duration, quiz_duration_given, draw) ==
    LET quiz_duration == IF quiz_duration_given <= 0 THEN 30 * Sec
                         ELSE quiz_duration_given
        safety_margin == Min(video_duration \div 10, 5 * Sec)
        max_start_time == Max(0, (video_duration - quiz_duration) - safety_margin)
        start_time == IF max_start_time > 0
                      THEN (max_start_time * draw) \div RandomSteps ELSE 0
    IN  IF video_duration <= quiz_duration \/ video_duration = 0
        THEN [start_time |-> 0,
              end_time |-> IF video_duration > 0 THEN video_duration ELSE quiz_duration]
        ELSE [start_time |-> start_time, end_time |-> start_time + quiz_duration]

---------------------------------------------------------------------------
(* _extract_video_segment and _download_full_video *)

\* The files in dynamicAssetDir
BackgroundSegment(start_time, end_time) ==
    [file |-> "background_segment", start_time |-> start_time, end_time |-> end_time]
BackgroundSegmentLocal(start_time, end_time) ==
    [file |-> "background_segment_local", start_time |-> start_time,
     end_time |-> end_time]
BackgroundFull == [file |-> "background_full.mp4"]

\* How the external tools of one call can end.  extract: the first ffmpeg
\* exits 0 with a file that is not empty, exits 0 without one, exits non-zero,
\* or runs into its timeout.  probe: ffprobe gives a duration above 0.1, or
\* anything else.  download: the full download gives a file or does not.
\* local_extract: the local ffmpeg exits 0 or not.  local_probe: ffprobe
\* gives a duration above 0.1, gives nothing or a duration up to 0.1, or
\* fails (exits non-zero, or prints what float() rejects).
ToolOutcomes ==
    [extract       : {"ok", "no_output", "nonzero", "timeout"},
     probe         : {"valid", "invalid"},
     download      : {"ok", "failed"},
     local_extract : {"ok", "nonzero"},
     local_probe   : {"valid", "invalid", "error"}]

\* _download_full_video: no tool runs for a source that is not remote
DownloadFullVideo(video_url, outcome) ==
    IF ~video_url.http THEN [local_full |-> None, calls |-> <<>>]
    ELSE [local_full |-> IF outcome = "ok" THEN BackgroundFull ELSE None,
          calls |-> <<[tool |-> "ffmpeg_download", input |-> video_url,
                       outcome |-> outcome]>>]

\* The calls of the first extraction and of its validation
FirstExtraction(video_url, start_time, end_time, outcome) ==
    [tool |-> "ffmpeg_extract", input |-> video_url, ss |-> start_time,
     t |-> end_time - start_time, outcome |-> outcome]
Validation(file, outcome) == [tool |-> "ffprobe", input |-> file, outcome |-> outcome]
LocalExtraction(start_time, end_time, outcome) ==
    [tool |-> "ffmpeg_local_extract", input |-> BackgroundFull, ss |-> start_time,
     t |-> end_time - start_time, outcome |-> outcome]

\* The local cut of the full download and what it returns
LocalCut(video_url, start_time, end_time, outcomes) ==
    IF outcomes.local_extract # "ok"
    THEN [result |-> BackgroundFull,
          calls |-> <<LocalExtraction(start_time, end_time, outcomes.local_extract)>>]
    ELSE [result |-> IF outcomes.local_probe = "valid"
                     THEN BackgroundSegmentLocal(start_time, end_time)
                     ELSE IF outcomes.local_probe = "error" THEN BackgroundFull
                     ELSE video_url,
          calls |-> <<LocalExtraction(start_time, end_time, outcomes.local_extract),
                      Validation(BackgroundSegmentLocal(start_time, end_time),
                                 outcomes.local_probe)>>]

\* After a segment that did not validate: the full download, then the local cut
AfterInvalidSegment(video_url, start_time, end_time, outcomes, download) ==
    IF download.local_full = None
    THEN [result |-> video_url, calls |-> download.calls]
    ELSE [result |-> LocalCut(video_url, start_time, end_time, outcomes).result,
          calls |-> download.calls
                       \o LocalCut(video_url, start_time, end_time, outcomes).calls]

\* After an extraction that failed or wrote nothing: the full download only
AfterFailedExtraction(video_url, download) ==
    [result |-> IF download.local_full # None THEN download.local_full ELSE video_url,
     calls |-> download.calls]

\* The first extraction tried again until it works
ExtractVideoSegmentRetrying(video_url, start_time, end_time, outcomes) ==
    IF start_time = 0 THEN [result |-> video_url, calls |-> <<>>]
    ELSE IF outcomes.extract = "ok" /\ outcomes.probe = "valid"
    THEN [result |-> BackgroundSegment(start_time, end_time),
          calls |-> <<FirstExtraction(video_url, start_time, end_time, "ok"),
                      Validation(BackgroundSegment(start_time, end_time), "valid")>>]
    ELSE [result |-> BackgroundSegment(start_time, end_time),
          calls |-> <<FirstExtraction(video_url, start_time, end_time,
                                      outcomes.extract),
                      FirstExtraction(video_url, start_time, end_time, "ok"),
                      Validation(BackgroundSegment(start_time, end_time), "valid")>>]
\* _extract_video_segment: what it returns and the tools it ran, in order
ExtractVideoSegment(video_url, start_time, end_time, outcomes) ==
    IF start_time = 0 THEN [result |-> video_url, calls |-> <<>>]
    ELSE IF outcomes.extract # "ok"
    THEN [result |-> AfterFailedExtraction(
                         video_url,
                         DownloadFullVideo(video_url, outcomes.download)).result,
          calls |-> <<FirstExtraction(video_url, start_time, end_time,
                                      outcomes.extract)>>
                       \o DownloadFullVideo(video_url, outcomes.download).calls]
    ELSE IF outcomes.probe = "valid"
    THEN [result |-> BackgroundSegment(start_time, end_time),
          calls |-> <<FirstExtraction(video_url, start_time, end_time, "ok"),
                      Validation(BackgroundSegment(start_time, end_time), "valid")>>]
    ELSE [result |-> AfterInvalidSegment(
                         video_url, start_time, end_time, outcomes,
                         DownloadFullVideo(video_url, outcomes.download)).result,
          calls |-> <<FirstExtraction(video_url, start_time, end_time, "ok"),
                      Validation(BackgroundSegment(start_time, end_time), "invalid")>>
                       \o AfterInvalidSegment(
                              video_url, start_time, end_time, outcomes,
                              DownloadFullVideo(video_url, outcomes.download)).calls]

---------------------------------------------------------------------------
(* _generateQuizTimedCaptions *)

\* QuizVideoEngine.__init__ passes isVerticalFormat=True
IsVerticalFormat == TRUE

\* len() of a str: the flag is two code points
CodePoints(ch) == IF ch = EmojiFlagFrance THEN 2 ELSE 1
RECURSIVE PyLen(_)
PyLen(content) ==
    IF content = <<>> THEN 0 ELSE CodePoints(Head(content)) + PyLen(Tail(content))

\* str.split(): the runs of characters between blanks
RECURSIVE SplitWords(_, _, _)
SplitWords(s, word, words) ==
    IF s = <<>> THEN (IF word = <<>> THEN words ELSE Append(words, word))
    ELSE IF Head(s) \in WhiteSpace
         THEN SplitWords(Tail(s), <<>>,
                         IF word = <<>> THEN words ELSE Append(words, word))
         ELSE SplitWords(Tail(s), Append(word, Head(s)), words)

\* ' '.join(chunk_words)
RECURSIVE JoinWords(_)
JoinWords(chunk_words) ==
    IF chunk_words = <<>> THEN <<>>
    ELSE IF Len(chunk_words) = 1 THEN chunk_words[1]
    ELSE chunk_words[1] \o <<" ">> \o JoinWords(Tail(chunk_words))

\* words[i:i + chunk_size] for i in range(0, len(words), chunk_size), joined
RECURSIVE WordChunks(_, _)
WordChunks(words, chunk_size) ==
    IF words = <<>> THEN <<>>
    ELSE <<JoinWords(SubSeq(words, 1, Min(chunk_size, Len(words))))>>
             \o WordChunks(SubSeq(words, chunk_size + 1, Len(words)), chunk_size)

\* A time that is a fraction of ticks: start_time + i * (duration / n) is
\* (n * start_time + i * duration) / n
Fraction(num, den) == [num |-> num, den |-> den]

\* The captions of the chunks of one component, each over its share of the
\* interval.  The field component is the place in all_components of the
\* component the caption was made from.
ChunkCaptions(component, k, chunks) ==
    [i \in 1..Len(chunks) |->
        [start_time |-> Fraction((Len(chunks) * component.start_time)
                                     + ((i - 1) * (component.end_time - component.start_time)),
                                 Len(chunks)),
         end_time   |-> Fraction((Len(chunks) * component.start_time)
                                     + (i * (component.end_time - component.start_time)),
                                 Len(chunks)),
         text       |-> chunks[i],
         component  |-> k]]

\* Captions for countdowns too
ComponentCaptionsWithCountdown(component, k, max_len) ==
    IF PyLen(component.content) <= max_len
    THEN <<[start_time |-> Fraction(component.start_time, 1),
            end_time   |-> Fraction(component.end_time, 1),
            text       |-> component.content,
            component  |-> k]>>
    ELSE ChunkCaptions(component, k,
                       WordChunks(SplitWords(component.content, <<>>, <<>>),
                                  max_len \div 8))
\* The body of the loop over all_components, for the k-th component
ComponentCaptions(component, k, max_len) ==
    IF component.type = TypeCountdown THEN <<>>
    ELSE IF PyLen(component.content) <= max_len
    THEN <<[start_time |-> Fraction(component.start_time, 1),
            end_time   |-> Fraction(component.end_time, 1),
            text       |-> component.content,
            component  |-> k]>>
    ELSE ChunkCaptions(component, k,
                       WordChunks(SplitWords(component.content, <<>>, <<>>),
                                  max_len \div 8))

\* The components under the keys 'question', 'countdown', 'answer' and 'cta'
SingleKeyComponents(components) ==
    components.question \o components.countdown \o components.answer
        \o components.cta
\* The dictionaries the fallback builds from them
RebuiltComponents(singles) ==
    [i \in 1..Len(singles) |->
        [type       |-> singles[i].type,
         start_time |-> singles[i].start_time,
         end_time   |-> singles[i].end_time,
         content    |-> singles[i].content]]
\* A fallback that adds the single keys to a list that is not empty
CaptionComponentsAppending(components) ==
    components.all_components \o RebuiltComponents(SingleKeyComponents(components))
\* all_components as the captions read it: an empty list is filled from the
\* single keys, in the list of the dictionary itself
CaptionComponents(components) ==
    IF components.all_components # <<>> THEN components.all_components
    ELSE RebuiltComponents(SingleKeyComponents(components))

RECURSIVE CaptionsFrom(_, _, _)
CaptionsFrom(all_components, k, max_len) ==
    IF k > Len(all_components) THEN <<>>
    ELSE ComponentCaptions(all_components[k], k, max_len)
             \o CaptionsFrom(all_components, k + 1, max_len)

\* _generateQuizTimedCaptions
GenerateQuizTimedCaptions(components, format_vertical) ==
    CaptionsFrom(CaptionComponents(components), 1,
                 IF format_vertical THEN 15 ELSE 30)

---------------------------------------------------------------------------
(* Writing a Timeline back as script lines *)

RECURSIVE FormatInt(_)
FormatInt(n) ==
    IF n < 10 THEN <<DigitChars[n + 1]>>
    ELSE Append(FormatInt(n \div 10), DigitChars[(n % 10) + 1])

RECURSIVE DropTrailingZeros(_)
DropTrailingZeros(ds) ==
    IF Len(ds) > 1 /\ ds[Len(ds)] = "0"
    THEN DropTrailingZeros(SubSeq(ds, 1, Len(ds) - 1)) ELSE ds

\* A time in seconds as a decimal with at least one fractional digit, the way
\* str() writes a float: 5.0, 1.5, 12.25
FormatFloat(t) ==
    LET parts == ((t % Sec) * 10000) \div Sec
        four  == <<DigitChars[(parts \div 1000) + 1],
                   DigitChars[((parts \div 100) % 10) + 1],
                   DigitChars[((parts \div 10) % 10) + 1],
                   DigitChars[(parts % 10) + 1]>>
    IN  FormatInt(t \div Sec) \o <<".">> \o DropTrailingZeros(four)

\* [<start>-<end>] <KIND>: <content>
SerializeComponent(c) ==
    <<"[">> \o FormatFloat(c.start_time) \o <<"-">> \o FormatFloat(c.end_time)
        \o <<"]", " ">> \o Upper(c.type) \o <<":", " ">> \o c.content

Serialize(cs) == [i \in 1..Len(cs) |-> SerializeComponent(cs[i])]

---------------------------------------------------------------------------
(* Scripts *)

\* [0.0-5.0] QUESTION: What is the capital of France?
LineQuestion ==
    <<"[","0",".","0","-","5",".","0","]"," ","Q","U","E","S","T","I","O","N",
      ":"," ","W","h","a","t"," ","i","s"," ","t","h","e"," ","c","a","p","i",
      "t","a","l"," ","o","f"," ","F","r","a","n","c","e","?">>
\* [5.0-8.0] COUNTDOWN: 3-2-1
LineCountdown ==
    <<"[","5",".","0","-","8",".","0","]"," ","C","O","U","N","T","D","O","W",
      "N",":"," ","3","-","2","-","1">>
\* [8.0-12.0] ANSWER: Paris
LineAnswer ==
    <<"[","8",".","0","-","1","2",".","0","]"," ","A","N","S","W","E","R",":",
      " ","P","a","r","i","s">>
\* [12.0-15.0] CTA: Follow us!
LineCta ==
    <<"[","1","2",".","0","-","1","5",".","0","]"," ","C","T","A",":"," ","F",
      "o","l","l","o","w"," ","u","s","!">>
\* garbage
LineGarbage == <<"g","a","r","b","a","g","e">>
\* [BAD] X: y
LineBad == <<"[","B","A","D","]"," ","X",":"," ","y">>
\* [0.0-5.0] QUESTION: Valid?
LineValid ==
    <<"[","0",".","0","-","5",".","0","]"," ","Q","U","E","S","T","I","O","N",
      ":"," ","V","a","l","i","d","?">>
\* "  [5-8.] countdown:go ": blanks around the line, bare integers, a lower-case
\* kind, no blank after the colon
LineLoose ==
    <<" "," ","[","5","-","8",".","]"," ","c","o","u","n","t","d","o","w","n",
      ":","g","o"," ">>
\* [8.0-5.0] ANSWER: No     (the end before the start)
LineBackwards ==
    <<"[","8",".","0","-","5",".","0","]"," ","A","N","S","W","E","R",":"," ",
      "N","o">>
\* [0.0-2.0] INTRO: Hi      (a kind word outside QUESTION, COUNTDOWN, ANSWER, CTA)
LineIntroKind ==
    <<"[","0",".","0","-","2",".","0","]"," ","I","N","T","R","O",":"," ","H",
      "i">>
\* [1.0-2.5] NOTE: x       (a kind word that names no kind at all)
LineOtherKind ==
    <<"[","1",".","0","-","2",".","5","]"," ","N","O","T","E",":"," ","x">>
\* a line of blanks
LineBlank == <<" "," ">>
\* [1.5-3.0] QUESTION:      (no content)
LineNoContent ==
    <<"[","1",".","5","-","3",".","0","]"," ","Q","U","E","S","T","I","O","N",
      ":">>

\* Scenario A, Scenario B and the malformed lines of the tests
ScenarioA == <<LineQuestion, LineCountdown, LineAnswer, LineCta>>
ScenarioB == <<LineGarbage, LineBad, LineValid>>

LinePool ==
    {LineQuestion, LineCountdown, LineAnswer, LineCta, LineGarbage, LineBad,
     LineLoose, LineBackwards, LineIntroKind, LineOtherKind, LineBlank,
     LineNoContent}

\* The longest script drawn freely from the pool
MaxLines == 2

SeqsUpTo(S, n) == UNION {[1..k -> S] : k \in 0..n}

Scripts == {ScenarioA, ScenarioB} \cup SeqsUpTo(LinePool, MaxLines)

IntroTexts == {<<>>, <<"H","e","y">>}
IntroDurations == {0, 2 * Sec}

---------------------------------------------------------------------------
(* download_video_locally (src/shortGPT/config/path_utils.py) *)

\* The callers that ask for the same URL at the same time, and the number of
\* chunks in which the body of the response arrives
MaxCallers == 2
Callers == 1..MaxCallers
BodyChunks == 3

\* A caller: where it is in the function, how many chunks it has written
\* through its own file object, what it returned and, for a return of the
\* cache path, whether the file was whole at that moment
DownloadCall(at, written, result, whole) ==
    [pc |-> at, written |-> written, result |-> result, whole |-> whole]
NotCalled == DownloadCall("check", 0, "none", FALSE)

\* The cached file is None while the path does not exist; otherwise 'chunks'
\* says of every chunk-sized piece of the file whether it holds the data of
\* the body (TRUE) or a hole left by a write beyond the end (FALSE)
FileOf(chunks) == [chunks |-> chunks]
GetSize(file) == IF file = None THEN 0 ELSE Len(file.chunks)
IsWhole(file) ==
    /\ file # None
    /\ Len(file.chunks) = BodyChunks
    /\ \A i \in 1..BodyChunks : file.chunks[i]

\* f.write(chunk) through a file object whose position is after 'written'
\* chunks: the chunk lands at that position whatever the file's length is
WriteChunkAt(file, written) ==
    FileOf([i \in 1..Max(Len(file.chunks), written + 1) |->
               IF i = written + 1 THEN TRUE
               ELSE IF i <= Len(file.chunks) THEN file.chunks[i]
               ELSE FALSE])

---------------------------------------------------------------------------
(* The engine *)

VARIABLES
    pc,                        \* where the engine is in its life
    quiz_script,               \* the constructor's quiz_script, as lines
    intro_text,                \* self._intro_text
    intro_duration,            \* self._intro_duration
    use_sound_effects,         \* self._use_sound_effects
    sound_paths,               \* self._intro/_countdown/_answer_sound_path
    db_quiz_components,        \* self._db_quiz_components
    db_component_audio_files,  \* self._db_component_audio_files
    db_timed_video_urls,       \* self._db_timed_video_urls
    db_watermark,              \* self._db_watermark
    db_video_path,             \* self._db_video_path
    composite_audio,           \* the track _createCompositeAudioTrack returned last
    editing_steps,             \* the steps added to the EditingEngine of the render
    reparsed,                  \* the Timeline parsed from the re-serialized one
    countdown_segments,        \* what get_countdown_segments() returned last
    video_timing,              \* the last call of _calculate_video_timing
    db_timed_captions,         \* self._db_timed_captions
    total_durations,           \* total_duration as its three places compute it
    fit_call,                  \* the last _generateComponentAudioFiles: speech, outcome
    work_files,                \* files of _createCompositeAudioTrack left on disk
    segment_call,              \* the last _extract_video_segment: arguments, tools, result
    cached_file,               \* the file at the cache path of the URL
    download_calls             \* each caller of download_video_locally

configVars == <<quiz_script, intro_text, intro_duration, use_sound_effects,
                db_timed_video_urls, db_watermark>>
engineVars ==
    <<pc, quiz_script, intro_text, intro_duration, use_sound_effects,
      sound_paths, db_quiz_components, db_component_audio_files,
      db_timed_video_urls, db_watermark, db_video_path, composite_audio,
      editing_steps, reparsed, countdown_segments, video_timing,
      db_timed_captions, total_durations, fit_call, work_files, segment_call>>
vars == <<pc, quiz_script, intro_text, intro_duration, use_sound_effects,
          sound_paths, db_quiz_components, db_component_audio_files,
          db_timed_video_urls, db_watermark, db_video_path, composite_audio,
          editing_steps, reparsed, countdown_segments, video_timing,
          db_timed_captions, total_durations, fit_call, work_files,
          segment_call, cached_file, download_calls>>

NoSounds == [intro |-> None, countdown |-> None, answer |-> None]

\* What _setupSoundEffects can leave in the three paths: the generated sounds
\* (0.8 s, 0.15 s, 0.8 s), a sound whose generation failed (None), an asset of
\* the library of any length
GeneratedSounds ==
    [intro     |-> SoundFile("intro_sound.wav", 800 * Ms),
     countdown |-> SoundFile("countdown_tick.wav", 150 * Ms),
     answer    |-> SoundFile("answer_ding.wav", 800 * Ms)]
SoundSetups ==
    {GeneratedSounds,
     [GeneratedSounds EXCEPT !.intro = None],
     [GeneratedSounds EXCEPT !.answer = SoundFile("asset", 6 * Sec)]}

\* Nothing has run yet
Idle ==
    /\ pc = "new"
    /\ sound_paths = NoSounds
    /\ db_quiz_components = None
    /\ db_component_audio_files = None
    /\ db_video_path = None
    /\ composite_audio = None
    /\ editing_steps = None
    /\ reparsed = None
    /\ countdown_segments = None
    /\ video_timing = None
    /\ db_timed_captions = None
    /\ total_durations = None
    /\ fit_call = None
    /\ work_files = None
    /\ segment_call = None
    /\ cached_file = None
    /\ download_calls = [caller \in Callers |-> NotCalled]

\* QuizVideoEngine.__init__: the script is parsed once and the sound effects
\* are set up
Construct ==
    /\ pc = "new"
    /\ pc' = "constructed"
    /\ db_quiz_components' = ParseQuizScript(quiz_script, intro_text, intro_duration)
    /\ IF use_sound_effects
       THEN \E sounds \in SoundSetups : sound_paths' = sounds
       ELSE sound_paths' = NoSounds
    /\ UNCHANGED <<configVars, db_component_audio_files, db_video_path,
                   composite_audio, editing_steps, reparsed, countdown_segments,
                   video_timing, db_timed_captions, total_durations,
                   fit_call, work_files,
                   segment_call,
                   cached_file, download_calls>>

\* The round trip: the Timeline is written back as lines and parsed again
Reparse ==
    /\ pc = "constructed"
    /\ reparsed = None
    /\ reparsed' = ParseQuizScript(Serialize(db_quiz_components.all_components),
                                   intro_text, intro_duration)
    /\ UNCHANGED <<pc, configVars, sound_paths, db_quiz_components,
                   db_component_audio_files, db_video_path, composite_audio,
                   editing_steps, countdown_segments, video_timing,
                   db_timed_captions, total_durations, fit_call, work_files,
                   segment_call,
                   cached_file, download_calls>>

\* get_countdown_segments()
GetCountdownSegments ==
    /\ pc # "new"
    /\ countdown_segments = None
    /\ countdown_segments' = GenerateCountdownSegments(db_quiz_components)
    /\ UNCHANGED <<pc, configVars, sound_paths, db_quiz_components,
                   db_component_audio_files, db_video_path, composite_audio,
                   editing_steps, reparsed, video_timing, db_timed_captions,
                   total_durations, fit_call, work_files,
                   segment_call,
                   cached_file, download_calls>>

\* The speech the voice module can return for one component: a clip of
\* positive length, and nothing to choose for a component that is not spoken
ComponentSpeeches(component) ==
    IF AudioText(component) = <<>>
    THEN {[excess |-> 0, probe_ok |-> TRUE, voice_ok |-> TRUE]}
    ELSE {choice \in SpeechChoices :
             RawDuration(component.end_time - component.start_time, choice) > 0}
RECURSIVE Speeches(_)
Speeches(all_components) ==
    IF all_components = <<>> THEN {<<>>}
    ELSE {<<choice>> \o rest : choice \in ComponentSpeeches(Head(all_components)),
                               rest \in Speeches(Tail(all_components))}

\* _generateComponentAudioFiles: the dictionary is stored when the loop ends,
\* and an error of the loop ends the job
GenerateComponentAudio ==
    /\ pc = "constructed"
    /\ \E speech \in Speeches(db_quiz_components.all_components) :
          \E fitted \in {GenerateComponentAudioFiles(db_quiz_components, speech)} :
              /\ fit_call' = [speech |-> speech, outcome |-> fitted.outcome]
              /\ \/ /\ fitted.outcome = "ok"
                    /\ pc' = "fitted"
                    /\ db_component_audio_files' = [files |-> fitted.files]
                 \/ /\ fitted.outcome # "ok"
                    /\ pc' = "failed"
                    /\ UNCHANGED db_component_audio_files
    /\ UNCHANGED <<configVars, sound_paths, db_quiz_components, db_video_path,
                   composite_audio, editing_steps, reparsed, countdown_segments,
                   video_timing, db_timed_captions, total_durations,
                   work_files,
                   segment_call,
                   cached_file, download_calls>>

\* A render that goes on after a failed subprocess of the composite track
EditAndRenderShortUnchecked ==
    /\ pc \in {"constructed", "fitted"}
    /\ \E track \in {CreateCompositeAudioTrack(db_quiz_components,
                        db_component_audio_files, use_sound_effects, sound_paths)} :
          \E steps \in {MixSteps(track.audio_inputs)} :
              \E fail_step \in 0..Len(steps), partial \in BOOLEAN :
                  /\ work_files' =
                         [files |-> FilesAfter(steps, fail_step, partial),
                          failed |-> IF fail_step = 0 THEN "none"
                                     ELSE steps[fail_step].step]
                  /\ composite_audio' = track
                  /\ editing_steps' = EditingSteps(db_quiz_components, track.path,
                                                   db_timed_video_urls, db_watermark)
                  /\ db_video_path' = "rendered_video.mp4"
                  /\ pc' = "rendered"
    /\ UNCHANGED <<configVars, sound_paths, db_quiz_components,
                   db_component_audio_files, reparsed, countdown_segments,
                   video_timing, db_timed_captions, total_durations, fit_call,
                   segment_call,
                   cached_file, download_calls>>
\* _editAndRenderShort with no rendered_video.mp4 on disk yet: the composite
\* track is made, the steps are added, the renderer runs and the path is
\* stored; a subprocess of the composite track that fails ends the render
EditAndRenderShort ==
    /\ pc \in {"constructed", "fitted"}
    /\ \E track \in {CreateCompositeAudioTrack(db_quiz_components,
                        db_component_audio_files, use_sound_effects, sound_paths)} :
          \E steps \in {MixSteps(track.audio_inputs)} :
              \/ /\ work_files' = [files |-> FilesAfter(steps, 0, FALSE), failed |-> "none"]
                 /\ composite_audio' = track
                 /\ editing_steps' = EditingSteps(db_quiz_components, track.path,
                                                  db_timed_video_urls, db_watermark)
                 /\ db_video_path' = "rendered_video.mp4"
                 /\ pc' = "rendered"
              \/ /\ \E fail_step \in 1..Len(steps), partial \in BOOLEAN :
                       work_files' = [files |-> FilesAfter(steps, fail_step, partial),
                                      failed |-> steps[fail_step].step]
                 /\ pc' = "failed"
                 /\ UNCHANGED <<composite_audio, editing_steps, db_video_path>>
    /\ UNCHANGED <<configVars, sound_paths, db_quiz_components,
                   db_component_audio_files, reparsed, countdown_segments,
                   video_timing, db_timed_captions, total_durations, fit_call,
                   segment_call,
                   cached_file, download_calls>>

\* _timeCaptions: the captions are made from the Timeline and stored
TimeCaptions ==
    /\ pc # "new"
    /\ db_timed_captions = None
    /\ db_timed_captions' =
           [captions |-> GenerateQuizTimedCaptions(db_quiz_components,
                                                   IsVerticalFormat)]
    /\ db_quiz_components' =
           [db_quiz_components EXCEPT
               !.all_components = CaptionComponents(db_quiz_components)]
    /\ UNCHANGED <<pc, configVars, sound_paths, db_component_audio_files,
                   db_video_path, composite_audio, editing_steps, reparsed,
                   countdown_segments, video_timing, total_durations,
                   fit_call, work_files,
                   segment_call,
                   cached_file, download_calls>>

\* total_duration in its three places: _get_quiz_duration for the background
\* video, _createCompositeAudioTrack for the silent base and
\* _editAndRenderShort for the placement of the background video
TotalDurations ==
    /\ pc # "new"
    /\ total_durations = None
    /\ total_durations' =
           [quiz      |-> GetQuizDuration(db_quiz_components),
            composite |-> CompositeTotalDuration(db_quiz_components),
            render    |-> RenderTotalDuration(db_quiz_components)]
    /\ UNCHANGED <<pc, configVars, sound_paths, db_quiz_components,
                   db_component_audio_files, db_video_path, composite_audio,
                   editing_steps, reparsed, countdown_segments, video_timing,
                   db_timed_captions, fit_call, work_files,
                   segment_call,
                   cached_file, download_calls>>

---------------------------------------------------------------------------
(* The timeline: every script of the pool, parsed and written back *)

Init ==
    /\ Idle
    /\ quiz_script \in Scripts
    /\ intro_text \in IntroTexts
    /\ intro_duration \in IntroDurations
    /\ use_sound_effects = FALSE
    /\ db_timed_video_urls = <<>>
    /\ db_watermark = <<>>

Next == Construct \/ Reparse \/ GetCountdownSegments

Spec == Init /\ [][Next]_vars

---------------------------------------------------------------------------
(* The audio: fitting, mixing and rendering of a few scripts *)

\* [0-400] CTA: Go          (a slot of 400 s)
LineLong == <<"[","0","-","4","0","0","]"," ","C","T","A",":"," ","G","o">>
\* [3.0-4.5] ANSWER: []     (content with nothing to speak)
LineMarkup ==
    <<"[","3",".","0","-","4",".","5","]"," ","A","N","S","W","E","R",":"," ",
      "[","]">>
\* [5.0-5.0] CTA: Go        (a slot of no length)
LineZeroSlot ==
    <<"[","5",".","0","-","5",".","0","]"," ","C","T","A",":"," ","G","o">>
\* [2.0-3.5] COUNTDOWN: 3-2-1   (a countdown of 1.5 s)
LineCountdownShort ==
    <<"[","2",".","0","-","3",".","5","]"," ","C","O","U","N","T","D","O","W",
      "N",":"," ","3","-","2","-","1">>

\* The contents of test_content_cleaning_for_audio, each as the answer of a
\* script of one line, and a content with two blanks in a row
AnswerPrefix ==
    <<"[","8",".","0","-","1","2",".","0","]"," ","A","N","S","W","E","R",":"," ">>
\* {flag-fr} Paris! The City of Light!
ContentParisFlair == <<EmojiFlagFrance, " ">> \o ParisCityOfLight
\* {skull} 206 bones! Amazing, right?
ContentBones ==
    <<"{skull}"," ","2","0","6"," ","b","o","n","e","s","!"," ">> \o PhraseAmazing
\* {abacus} 30! Quick math!
ContentThirty == <<"{abacus}"," ","3","0","!"," ">> \o PhraseQuickMath
\* Well  done
ContentTwoBlanks == <<"W","e","l","l"," "," ","d","o","n","e">>
\* Quick math!        (nothing is left of it to speak)
ContentOnlyFlair == PhraseQuickMath
CleaningContents ==
    {ContentParisFlair, ContentBones, ContentThirty, ContentTwoBlanks,
     ContentOnlyFlair}

AudioScripts ==
    {<<AnswerPrefix \o content>> : content \in CleaningContents} \cup
    {ScenarioA,
     <<>>,
     <<LineLong>>,
     <<LineQuestion, LineBackwards>>,
     <<LineCountdown, LineLoose>>,
     <<LineMarkup, LineAnswer>>,
     <<LineCta, LineQuestion>>,
     <<LineQuestion, LineZeroSlot>>,
     <<LineCountdownShort, LineAnswer>>}

\* The longest script that is also run with an intro
MaxIntroLines == 2

TestVideo == <<[window |-> <<0, 15 * Sec>>, url |-> "test_video.mp4"]>>
TestChannel == <<"T","e","s","t","C","h","a","n","n","e","l">>

AudioInit ==
    /\ Idle
    /\ quiz_script \in AudioScripts
    /\ \/ intro_text = <<>> /\ intro_duration = 0
       \/ /\ Len(quiz_script) <= MaxIntroLines
          /\ intro_text = <<"H","e","y">>
          /\ intro_duration = 2 * Sec
    /\ \/ /\ use_sound_effects = FALSE
          /\ db_timed_video_urls = <<>>
          /\ db_watermark = <<>>
       \/ /\ use_sound_effects = TRUE
          /\ db_timed_video_urls = TestVideo
          /\ db_watermark = TestChannel

AudioNext == Construct \/ GenerateComponentAudio \/ EditAndRenderShort

AudioSpec == AudioInit /\ [][AudioNext]_vars

---------------------------------------------------------------------------
(* The background video window *)

VideoDurations ==
    {0, 10 * Sec, 15 * Sec, 16 * Sec, 20 * Sec, 31 * Sec, 45 * Sec, 60 * Sec,
     600 * Sec}
QuizDurations == {0, 1 * Ms, 15 * Sec, 17 * Sec, 400 * Sec}

\* One call of _calculate_video_timing
CalculateTiming ==
    /\ segment_call = None
    /\ \E video_duration \in VideoDurations, quiz_duration \in QuizDurations,
          draw \in 0..RandomSteps :
          video_timing' =
              [video_duration |-> video_duration,
               quiz_duration |-> quiz_duration,
               window |-> CalculateVideoTiming(video_duration, quiz_duration, draw)]
    /\ UNCHANGED <<pc, configVars, sound_paths, db_quiz_components,
                   db_component_audio_files, db_video_path, composite_audio,
                   editing_steps, reparsed, countdown_segments,
                   db_timed_captions, total_durations, fit_call, work_files,
                   segment_call,
                   cached_file, download_calls>>

\* The background video of the asset library: a remote link or a local file
VideoUrls ==
    {[file |-> "https://video", http |-> TRUE], [file |-> "video.mp4", http |-> FALSE]}

\* One call of _extract_video_segment, as _generateVideoUrls makes it with the
\* window of _calculate_video_timing
ExtractSegment ==
    /\ video_timing # None
    /\ segment_call = None
    /\ \E video_url \in VideoUrls, outcomes \in ToolOutcomes :
          \E call \in {ExtractVideoSegment(video_url, video_timing.window.start_time,
                                           video_timing.window.end_time, outcomes)} :
              segment_call' = [video_url |-> video_url,
                               start_time |-> video_timing.window.start_time,
                               end_time |-> video_timing.window.end_time,
                               calls |-> call.calls,
                               result |-> call.result]
    /\ UNCHANGED <<pc, configVars, sound_paths, db_quiz_components,
                   db_component_audio_files, db_video_path, composite_audio,
                   editing_steps, reparsed, countdown_segments, video_timing,
                   db_timed_captions, total_durations, fit_call, work_files,
                   cached_file, download_calls>>

VideoInit ==
    /\ Idle
    /\ quiz_script = <<>>
    /\ intro_text = <<>>
    /\ intro_duration = 0
    /\ use_sound_effects = FALSE
    /\ db_timed_video_urls = <<>>
    /\ db_watermark = <<>>

VideoNext == CalculateTiming \/ ExtractSegment

VideoSpec == VideoInit /\ [][VideoNext]_vars

---------------------------------------------------------------------------
(* The captions and the total duration of a few scripts *)

\* [8.0-5.0] ANSWER: The City of Light   (long content, the end before the start)
LineBackwardsLong ==
    <<"[","8",".","0","-","5",".","0","]"," ","A","N","S","W","E","R",":"," ",
      "T","h","e"," ","C","i","t","y"," ","o","f"," ","L","i","g","h","t">>
\* [1.0-2.0] CTA: Follow us today        (content of 15 characters)
LineFifteen ==
    <<"[","1",".","0","-","2",".","0","]"," ","C","T","A",":"," ","F","o","l",
      "l","o","w"," ","u","s"," ","t","o","d","a","y">>
\* [2.0-3.0] QUESTION: Is it one or  two or six   (seven words in one second)
LineSevenWords ==
    <<"[","2",".","0","-","3",".","0","]"," ","Q","U","E","S","T","I","O","N",
      ":"," ","I","s"," ","i","t"," ","o","n","e"," ","o","r"," "," ","t","w",
      "o"," ","o","r"," ","s","i","x">>
\* [4.0-6.0] COUNTDOWN: Three then two then one   (a countdown with long content)
LineCountdownLong ==
    <<"[","4",".","0","-","6",".","0","]"," ","C","O","U","N","T","D","O","W",
      "N",":"," ","T","h","r","e","e"," ","t","h","e","n"," ","t","w","o"," ",
      "t","h","e","n"," ","o","n","e">>

CaptionPool ==
    {LineQuestion, LineCountdown, LineAnswer, LineCta, LineBackwardsLong,
     LineFifteen, LineSevenWords, LineCountdownLong}
MaxCaptionLines == 2
CaptionScripts == {ScenarioA} \cup SeqsUpTo(CaptionPool, MaxCaptionLines)

\* intro_text of sixteen blanks, and one of four words
IntroBlank == [i \in 1..16 |-> " "]
IntroWelcome ==
    <<"W","e","l","c","o","m","e"," ","t","o"," ","t","h","e"," ","q","u","i",
      "z">>
CaptionIntroTexts == {<<>>, <<"H","e","y">>, IntroBlank, IntroWelcome}

CaptionInit ==
    /\ Idle
    /\ quiz_script \in CaptionScripts
    /\ intro_text \in CaptionIntroTexts
    /\ intro_duration = IF intro_text = <<>> THEN 0 ELSE 2 * Sec
    /\ use_sound_effects = FALSE
    /\ db_timed_video_urls = <<>>
    /\ db_watermark = <<>>

CaptionNext == Construct \/ TimeCaptions \/ TotalDurations

CaptionSpec == CaptionInit /\ [][CaptionNext]_vars

---------------------------------------------------------------------------
(* The operations of one engine, in any order *)

\* Scripts run without an intro, and scripts run with one
EngineScripts == {<<LineQuestion, LineCountdown, LineAnswer>>, ScenarioB, <<>>}
EngineIntroScripts == {<<LineCta, LineQuestion>>, <<>>}

EngineInit ==
    /\ Idle
    /\ \/ /\ quiz_script \in EngineScripts
          /\ intro_text = <<>>
          /\ intro_duration = 0
       \/ /\ quiz_script \in EngineIntroScripts
          /\ intro_text = <<"H","e","y">>
          /\ intro_duration = 2 * Sec
    /\ use_sound_effects = FALSE
    /\ db_timed_video_urls = TestVideo
    /\ db_watermark = <<>>

EngineNext ==
    \/ Construct
    \/ GetCountdownSegments
    \/ GenerateComponentAudio
    \/ TimeCaptions
    \/ TotalDurations
    \/ EditAndRenderShort

EngineSpec == EngineInit /\ [][EngineNext]_vars

---------------------------------------------------------------------------
(* The download cache: callers of download_video_locally for one URL *)

\* os.path.exists(cached_file) and os.path.getsize(cached_file) > 0
CheckCache(caller) ==
    /\ download_calls[caller].pc = "check"
    /\ download_calls' =
          [download_calls EXCEPT ![caller] =
              IF cached_file # None /\ GetSize(cached_file) > 0
              THEN DownloadCall("returned", 0, "cached_file", IsWhole(cached_file))
              ELSE DownloadCall("request", 0, "none", FALSE)]
    /\ UNCHANGED <<engineVars, cached_file>>

\* requests.get and raise_for_status: the response, or an exception
Request(caller) ==
    /\ download_calls[caller].pc = "request"
    /\ \E at \in {"open", "fallback"} :
          download_calls' =
              [download_calls EXCEPT ![caller] = DownloadCall(at, 0, "none", FALSE)]
    /\ UNCHANGED <<engineVars, cached_file>>

\* open(cached_file, 'wb'): the file is made, or emptied when it is there
OpenCachedFile(caller) ==
    /\ download_calls[caller].pc = "open"
    /\ cached_file' = FileOf(<<>>)
    /\ download_calls' =
          [download_calls EXCEPT ![caller] = DownloadCall("write", 0, "none", FALSE)]
    /\ UNCHANGED engineVars

\* One turn of the loop over iter_content: the next chunk is written, or the
\* stream raises and the with block closes the file as it is
WriteChunk(caller) ==
    /\ download_calls[caller].pc = "write"
    /\ download_calls[caller].written < BodyChunks
    /\ \/ /\ cached_file' = WriteChunkAt(cached_file, download_calls[caller].written)
          /\ download_calls' =
                [download_calls EXCEPT ![caller] =
                    DownloadCall("write", download_calls[caller].written + 1,
                                 "none", FALSE)]
       \/ /\ download_calls' =
                [download_calls EXCEPT ![caller] =
                    DownloadCall("fallback", download_calls[caller].written,
                                 "none", FALSE)]
          /\ UNCHANGED cached_file
    /\ UNCHANGED engineVars

\* The body is at its end: the file is closed and its path returned
ReturnDownloaded(caller) ==
    /\ download_calls[caller].pc = "write"
    /\ download_calls[caller].written = BodyChunks
    /\ download_calls' =
          [download_calls EXCEPT ![caller] =
              DownloadCall("returned", BodyChunks, "downloaded", IsWhole(cached_file))]
    /\ UNCHANGED <<engineVars, cached_file>>

\* The except branch: ffmpeg into a temporary file of its own, or the URL
FfmpegFallback(caller) ==
    /\ download_calls[caller].pc = "fallback"
    /\ \E result \in {"temp_file", "url"} :
          download_calls' =
              [download_calls EXCEPT ![caller] =
                  DownloadCall("returned", download_calls[caller].written,
                               result, FALSE)]
    /\ UNCHANGED <<engineVars, cached_file>>

DownloadInit ==
    /\ Idle
    /\ quiz_script = <<>>
    /\ intro_text = <<>>
    /\ intro_duration = 0
    /\ use_sound_effects = FALSE
    /\ db_timed_video_urls = <<>>
    /\ db_watermark = <<>>

DownloadNext ==
    \E caller \in Callers :
        \/ CheckCache(caller)
        \/ Request(caller)
        \/ OpenCachedFile(caller)
        \/ WriteChunk(caller)
        \/ ReturnDownloaded(caller)
        \/ FfmpegFallback(caller)

DownloadSpec == DownloadInit /\ [][DownloadNext]_vars

---------------------------------------------------------------------------
(* Properties *)

Constructed == pc # "new"
AllComponents == db_quiz_components.all_components
IntroConfigured == intro_text # <<>> /\ intro_duration > 0

\* The largest end_time of a Timeline, 0 for an empty one
TotalDuration(cs) ==
    IF cs = <<>> THEN 0
    ELSE CHOOSE t \in {cs[i].end_time : i \in 1..Len(cs)} :
             \A i \in 1..Len(cs) : cs[i].end_time <= t

\* The line grammar, stated on the stripped line: "[" number "-" number "]",
\* blanks, a word, ":", and content behind it
IsDigits(t) == \A i \in 1..Len(t) : t[i] \in Digits
IsNumber(t) ==
    \E n \in 1..Len(t) :
        /\ IsDigits(SubSeq(t, 1, n))
        /\ \/ n = Len(t)
           \/ t[n + 1] = "." /\ IsDigits(SubSeq(t, n + 2, Len(t)))
InGrammarWithKind(line, kinds) ==
    LET s == Strip(line)
    IN  /\ s # <<>>
        /\ s[1] = "["
        /\ \E a \in 1..Len(s) :
              /\ s[a] = "-"
              /\ IsNumber(SubSeq(s, 2, a - 1))
              /\ \E b \in (a + 1)..Len(s) :
                    /\ s[b] = "]"
                    /\ IsNumber(SubSeq(s, a + 1, b - 1))
                    /\ \E d \in (b + 1)..(Len(s) - 1) :
                          /\ s[d] = ":"
                          /\ \E c \in (b + 1)..(d - 1) :
                                /\ \A i \in (b + 1)..(c - 1) : s[i] \in WhiteSpace
                                /\ \A i \in c..(d - 1) : s[i] \in WordChars
                                /\ kinds # {} => Lower(SubSeq(s, c, d - 1)) \in kinds
InGrammar(line) == InGrammarWithKind(line, {})
MatchingLines(script) == {i \in 1..Len(script) : InGrammar(script[i])}

ScriptKinds == {TypeQuestion, TypeCountdown, TypeAnswer, TypeCta}
Kinds == ScriptKinds \cup {TypeIntro}

\* C1: whenever a composite track has been made, it lasts exactly as long as
\* the Timeline, that is up to the largest end_time of its components.
C1_CompositeSpansTotalDuration ==
    composite_audio # None =>
        composite_audio.duration = TotalDuration(AllComponents)

\* C2: for a background video longer than a quiz of positive length, the
\* window starts at 0 or later, is as long as the quiz, and ends inside the video.
C2_WindowInsideSource ==
    (/\ video_timing # None
     /\ video_timing.quiz_duration > 0
     /\ video_timing.video_duration > video_timing.quiz_duration) =>
        /\ 0 <= video_timing.window.start_time
        /\ video_timing.window.end_time
              = video_timing.window.start_time + video_timing.quiz_duration
        /\ video_timing.window.start_time + video_timing.quiz_duration
              <= video_timing.video_duration
\* A window that was drawn behind the start of a longer video
C2_Witness ==
    /\ video_timing # None
    /\ video_timing.quiz_duration > 0
    /\ video_timing.video_duration > video_timing.quiz_duration
    /\ video_timing.window.start_time > 0

\* C3: every fitted clip whose speech was longer than its slot D is stretched
\* and lasts D within 0.15 s; every clip whose speech was not longer than D is
\* not stretched and keeps the length of the speech.
C3_FittedToSlot ==
    db_component_audio_files # None =>
        \A i \in 1..Len(db_component_audio_files.files) :
            LET info == db_component_audio_files.files[i]
                D == info.end_time - info.start_time
            IN  /\ info.clip.raw > D =>
                      /\ info.clip.stretched
                      /\ info.clip.duration - D <= 150 * Ms
                      /\ D - info.clip.duration <= 150 * Ms
                /\ info.clip.raw <= D =>
                      /\ ~info.clip.stretched
                      /\ info.clip.duration = info.clip.raw

C5_IntroInsertion ==
    Constructed =>
        LET parsed == ParseQuizScript(quiz_script, <<>>, 0).all_components
        IN  IF IntroConfigured
            THEN /\ Len(AllComponents) = Len(parsed) + 1
                 /\ AllComponents[1]
                       = [start_time |-> 0, end_time |-> intro_duration,
                          content |-> intro_text, type |-> TypeIntro]
                 /\ \A i \in 1..Len(parsed) :
                       AllComponents[i + 1]
                           = [parsed[i] EXCEPT
                                 !.start_time = @ + intro_duration,
                                 !.end_time = @ + intro_duration]
                 /\ TotalDuration(AllComponents)
                       = TotalDuration(parsed) + intro_duration
            ELSE /\ AllComponents = parsed
                 /\ \A i \in 1..Len(AllComponents) :
                       AllComponents[i].type # TypeIntro

\* C6: the components of a parsed Timeline are in the order of their
\* start_time, the earliest first.
C6_SortedByStartTime ==
    Constructed =>
        \A i, j \in 1..Len(AllComponents) :
            i < j => AllComponents[i].start_time <= AllComponents[j].start_time
\* A parsed script whose lines were not in the order of their start times
C6_Witness ==
    /\ Constructed
    /\ \E i, j \in 1..Len(ParsedComponents(quiz_script)) :
          /\ i < j
          /\ ParsedComponents(quiz_script)[i].start_time
                > ParsedComponents(quiz_script)[j].start_time
    /\ Len(AllComponents) >= 2

\* C7: every component of a parsed Timeline ends after it starts.
C7_EndsAfterStart ==
    Constructed =>
        \A i \in 1..Len(AllComponents) :
            AllComponents[i].end_time > AllComponents[i].start_time

\* C8: every component of a parsed Timeline is a question, a countdown, an
\* answer, a call to action or an intro, and only the lines of the first four
\* kinds give a component.
C8_KindInClosedSet ==
    Constructed =>
        /\ \A i \in 1..Len(AllComponents) : AllComponents[i].type \in Kinds
        /\ Len(AllComponents)
              = Cardinality({i \in 1..Len(quiz_script) :
                                InGrammarWithKind(quiz_script[i], ScriptKinds)})
                    + (IF IntroConfigured THEN 1 ELSE 0)

\* The parts of a Timeline that hold components
SameTimeline(t1, t2) ==
    /\ t1.all_components = t2.all_components
    /\ t1.questions = t2.questions
    /\ t1.countdowns = t2.countdowns
    /\ t1.answers = t2.answers
    /\ t1.ctas = t2.ctas

\* C9 as stated: a Timeline written back as lines and parsed again is the
\* same Timeline.
C9_RoundTrip ==
    reparsed # None => SameTimeline(reparsed, db_quiz_components)
\* C9: when no intro is configured, a Timeline written back as lines and
\* parsed again is the same Timeline.
C9_RoundTripWithoutIntro ==
    (reparsed # None /\ ~IntroConfigured) =>
        SameTimeline(reparsed, db_quiz_components)
\* A Timeline of two components was written back and parsed again
C9_Witness ==
    /\ reparsed # None
    /\ ~IntroConfigured
    /\ Len(reparsed.all_components) >= 2
    /\ \E i \in 1..Len(AllComponents) : AllComponents[i].end_time % Sec # 0

CountdownOverlays ==
    SelectSeq(editing_steps, LAMBDA step : step.step = "ADD_COUNTDOWN_OVERLAY")

\* C10: a render adds three overlays for every countdown of the Timeline, in
\* the order of the countdowns: they show 3, 2 and 1, the i-th of them (from
\* 0) runs from s + i(e - s)/3 to s + (i + 1)(e - s)/3 for a countdown from s
\* to e, so they start at s, follow one another without a gap and end at e.
C10_CountdownPartition ==
    pc = "rendered" =>
        LET countdowns == OfType(AllComponents, TypeCountdown)
        IN  /\ Len(CountdownOverlays) = 3 * Len(countdowns)
            /\ \A k \in 1..Len(countdowns) :
                  LET s == countdowns[k].start_time
                      e == countdowns[k].end_time
                      overlay(i) == CountdownOverlays[(3 * (k - 1)) + i + 1]
                  IN  /\ \A i \in 0..2 :
                            /\ overlay(i).text = << <<"3", "2", "1">>[i + 1] >>
                            /\ 3 * overlay(i).set_time_start = (3 * s) + (i * (e - s))
                            /\ 3 * overlay(i).set_time_end
                                  = (3 * s) + ((i + 1) * (e - s))
                      /\ overlay(0).set_time_start = s
                      /\ overlay(0).set_time_end = overlay(1).set_time_start
                      /\ overlay(1).set_time_end = overlay(2).set_time_start
                      /\ overlay(2).set_time_end = e
\* A render of a Timeline with a countdown whose thirds are not whole seconds
C10_Witness ==
    /\ pc = "rendered"
    /\ \E i \in 1..Len(AllComponents) :
          /\ AllComponents[i].type = TypeCountdown
          /\ AllComponents[i].end_time - AllComponents[i].start_time # 3 * Sec
    /\ Len(CountdownOverlays) >= 3

TimedCaptions == db_timed_captions.captions
\* The captions made from the k-th component
CaptionsOf(k) == SelectSeq(TimedCaptions, LAMBDA caption : caption.component = k)
IsTime(f, t) == f.num = t * f.den
NotAfter(f, g) == f.num * g.den <= g.num * f.den

\* C11: the captions of Scenario A are three, one for each component that is
\* not the countdown, and each has the whole content of its component.
C11_ScenarioACaptions ==
    (db_timed_captions # None /\ quiz_script = ScenarioA /\ ~IntroConfigured) =>
        /\ Len(TimedCaptions) = 3
        /\ \A k \in 1..Len(AllComponents) :
              AllComponents[k].type # TypeCountdown =>
                  /\ Len(CaptionsOf(k)) = 1
                  /\ CaptionsOf(k)[1].text = AllComponents[k].content

\* C12: no caption is made from a countdown component.
C12_NoCountdownCaption ==
    db_timed_captions # None =>
        \A i \in 1..Len(TimedCaptions) :
            AllComponents[TimedCaptions[i].component].type # TypeCountdown
\* Captions were made for a Timeline with a countdown and another component
C12_Witness ==
    /\ db_timed_captions # None
    /\ TimedCaptions # <<>>
    /\ \E k \in 1..Len(AllComponents) :
          /\ AllComponents[k].type = TypeCountdown
          /\ PyLen(AllComponents[k].content) > 15

\* C13: the captions of a component that is not a countdown cover its
\* interval [s, e] once: one caption over [s, e] for content of at most 15
\* characters, and otherwise one chunk or more, the first from s, the last to
\* e, each ending where the next begins and none reaching into a later one.
C13_CaptionsCoverInterval ==
    db_timed_captions # None =>
        \A k \in 1..Len(AllComponents) :
            AllComponents[k].type # TypeCountdown =>
                /\ Len(CaptionsOf(k)) >= 1
                /\ PyLen(AllComponents[k].content) <= 15 => Len(CaptionsOf(k)) = 1
                /\ IsTime(CaptionsOf(k)[1].start_time, AllComponents[k].start_time)
                /\ IsTime(CaptionsOf(k)[Len(CaptionsOf(k))].end_time,
                          AllComponents[k].end_time)
                /\ \A i \in 1..(Len(CaptionsOf(k)) - 1) :
                      CaptionsOf(k)[i].end_time = CaptionsOf(k)[i + 1].start_time
                /\ \A i, j \in 1..Len(CaptionsOf(k)) :
                      i < j => NotAfter(CaptionsOf(k)[i].end_time,
                                        CaptionsOf(k)[j].start_time)

\* C14: the total duration is the largest end_time of the components, 0 for
\* a Timeline without components, and its three places compute that value.
C14_OneTotalDuration ==
    total_durations # None =>
        /\ total_durations.quiz = TotalDuration(AllComponents)
        /\ total_durations.composite = TotalDuration(AllComponents)
        /\ total_durations.render = TotalDuration(AllComponents)
\* The durations of a Timeline whose last component does not end last
C14_Witness ==
    /\ total_durations # None
    /\ Len(AllComponents) >= 2
    /\ AllComponents[Len(AllComponents)].end_time < total_durations.quiz

\* The components that are spoken, by their place in all_components
Spoken == {k \in 1..Len(AllComponents) : AudioText(AllComponents[k]) # <<>>}
\* The entries of the component-audio map made for the k-th component
EntriesOf(k) ==
    IF db_component_audio_files = None THEN {}
    ELSE {i \in 1..Len(db_component_audio_files.files) :
             db_component_audio_files.files[i].key.index = k - 1}

\* C15: when the length of a component's normalized clip cannot be measured,
\* the fitting ends in an error and the component gets no clip.
C15_MeasurementFailureIsFatal ==
    fit_call # None =>
        \A k \in Spoken :
            (fit_call.speech[k].voice_ok /\ ~fit_call.speech[k].probe_ok) =>
                /\ fit_call.outcome # "ok"
                /\ EntriesOf(k) = {}

\* C16: a fitting that returns has one entry for every spoken component, with
\* the start_time and end_time of that component; a fitting in which the
\* synthesis or a later step failed for a component raises and stores no map.
C16_NoComponentDropped ==
    fit_call # None =>
        /\ fit_call.outcome = "ok" =>
              \A k \in Spoken :
                  /\ Cardinality(EntriesOf(k)) = 1
                  /\ \A i \in EntriesOf(k) :
                        /\ db_component_audio_files.files[i].start_time
                              = AllComponents[k].start_time
                        /\ db_component_audio_files.files[i].end_time
                              = AllComponents[k].end_time
        /\ (\E k \in Spoken : ~fit_call.speech[k].voice_ok
                                 \/ ~fit_call.speech[k].probe_ok) =>
              /\ fit_call.outcome # "ok"
              /\ db_component_audio_files = None

\* C17: when _createCompositeAudioTrack has exited, by its return or by the
\* error of a subprocess, none of its working files is left: no
\* silent_base.wav, no countdown segment, no temp_final_normalized.wav.
C17_WorkingFilesReclaimed ==
    work_files # None =>
        \A f \in work_files.files : f.file = "composite_audio.wav"

\* The tools one call of _extract_video_segment ran
ToolCalls(tool) == SelectSeq(segment_call.calls, LAMBDA call : call.tool = tool)
SourceDuration == video_timing.video_duration
QuizDuration == video_timing.quiz_duration
Window == video_timing.window

\* C18: for a quiz of positive length, a source that is not longer than the
\* quiz or of unknown length gives the whole source as the window (from 0 to
\* quiz_duration when the length is unknown) and no run of the extraction
\* tool; a source longer than the quiz gives a window of quiz_duration and a
\* run of the extraction tool on that window.
C18_WindowDecision ==
    (segment_call # None /\ QuizDuration > 0) =>
        IF SourceDuration <= QuizDuration
        THEN /\ Window.start_time = 0
             /\ Window.end_time
                   = IF SourceDuration = 0 THEN QuizDuration ELSE SourceDuration
             /\ segment_call.calls = <<>>
        ELSE /\ Window.end_time = Window.start_time + QuizDuration
             /\ Len(ToolCalls("ffmpeg_extract")) = 1
             /\ segment_call.calls[1].tool = "ffmpeg_extract"
             /\ segment_call.calls[1].ss = Window.start_time
             /\ segment_call.calls[1].t = QuizDuration

\* C19: one call runs the first extraction, the full download and the local
\* extraction at most once each, and returns the segment, the local segment,
\* the full download or the source it was given.
C19_EachTierOnce ==
    segment_call # None =>
        /\ Len(ToolCalls("ffmpeg_extract")) <= 1
        /\ Len(ToolCalls("ffmpeg_download")) <= 1
        /\ Len(ToolCalls("ffmpeg_local_extract")) <= 1
        /\ segment_call.result
              \in {BackgroundSegment(segment_call.start_time, segment_call.end_time),
                   BackgroundSegmentLocal(segment_call.start_time,
                                          segment_call.end_time),
                   BackgroundFull,
                   segment_call.video_url}
\* A call that went through all three tiers
C19_Witness ==
    /\ segment_call # None
    /\ Len(ToolCalls("ffmpeg_extract")) = 1
    /\ Len(ToolCalls("ffmpeg_download")) = 1
    /\ Len(ToolCalls("ffmpeg_local_extract")) = 1

\* C20: when the first extraction fails or its segment does not validate,
\* the full source is downloaded, and when the download gives a file the
\* local extraction of the same window is run.
C20_LocalExtractionAfterFailure ==
    (/\ segment_call # None
     /\ segment_call.calls # <<>>
     /\ \/ segment_call.calls[1].outcome # "ok"
        \/ /\ Len(segment_call.calls) >= 2
           /\ segment_call.calls[2].outcome = "invalid") =>
        /\ segment_call.video_url.http => Len(ToolCalls("ffmpeg_download")) = 1
        /\ (\E i \in 1..Len(segment_call.calls) :
               /\ segment_call.calls[i].tool = "ffmpeg_download"
               /\ segment_call.calls[i].outcome = "ok") =>
              /\ Len(ToolCalls("ffmpeg_local_extract")) = 1
              /\ ToolCalls("ffmpeg_local_extract")[1].ss = segment_call.start_time
              /\ ToolCalls("ffmpeg_local_extract")[1].t
                    = segment_call.end_time - segment_call.start_time

\* The steps of the given kind among those handed to the renderer
StepsOf(step) == SelectSeq(editing_steps, LAMBDA added : added.step = step)

\* C21: the renderer runs with the composite track as its voiceover step and
\* with a background video step; it never runs without one of the two.
C21_RendererHasAudioAndVideo ==
    pc = "rendered" =>
        /\ composite_audio # None
        /\ Len(StepsOf("ADD_VOICEOVER_AUDIO")) = 1
        /\ StepsOf("ADD_VOICEOVER_AUDIO")[1].url = composite_audio.path
        /\ Len(StepsOf("ADD_BACKGROUND_VIDEO")) = 1


\* C22: when a subprocess of the composite track fails, the render ends in
\* the error: no step is added, the renderer does not run and the path of the
\* rendered video is not stored.
C22_FailFastRender ==
    (work_files # None /\ work_files.failed # "none") =>
        /\ pc = "failed"
        /\ composite_audio = None
        /\ editing_steps = None
        /\ db_video_path = None
\* A render whose mix failed after the silent base and the countdown cuts
C22_Witness ==
    /\ work_files # None
    /\ work_files.failed = "mix"
    /\ \E f \in work_files.files : f.file = "countdown_segment"


\* components[key] as Python reads it: the component stored at the key, and a
\* KeyError for a key the dictionary does not hold
KeyError == [raised |-> "KeyError"]
ReadKey(key) ==
    IF db_quiz_components[key] = <<>> THEN KeyError ELSE db_quiz_components[key][1]

\* C23: get_quiz_components() can be read at 'question', 'countdown',
\* 'answer' and 'cta': the key holds a parsed component of its kind when the
\* script has one or more, and None when the script has no component of the
\* kind.
C23_SingleKeysReadable ==
    Constructed =>
        \A single \in {[key |-> "question", type |-> TypeQuestion],
                       [key |-> "countdown", type |-> TypeCountdown],
                       [key |-> "answer", type |-> TypeAnswer],
                       [key |-> "cta", type |-> TypeCta]} :
            \E of_kind \in {OfType(AllComponents, single.type)} :
                IF of_kind = <<>> THEN ReadKey(single.key) = None
                ELSE ReadKey(single.key) \in {of_kind[i] : i \in 1..Len(of_kind)}


\* The clips made for the components with the given content
ClipsOf(content) ==
    {i \in 1..Len(db_component_audio_files.files) :
        /\ db_component_audio_files.files[i].type # TypeCountdown
        /\ db_component_audio_files.files[i].component.content = content}
\* Content without a symbol that is removed, a visual phrase or a repeated
\* exclamation mark
PlainContent(content) ==
    /\ \A i \in 1..Len(content) :
          /\ content[i] # EmojiFlagFrance
          /\ \A j \in 1..Len(RemovedSymbols) : content[i] # RemovedSymbols[j]
    /\ \A j \in 1..Len(VisualPhrases) : ~Contains(content, VisualPhrases[j])
    /\ ~Contains(content, <<"!", "!">>)

\* C24: the text spoken for a component is the core of its content: "Paris",
\* "206 bones" and "30" for the three decorated answers of the test, and the
\* content itself when it has nothing to remove.
C24_CleanedIsCoreText ==
    db_component_audio_files # None =>
        /\ \A i \in ClipsOf(ContentParisFlair) :
              db_component_audio_files.files[i].text = Paris
        /\ \A i \in ClipsOf(ContentBones) :
              db_component_audio_files.files[i].text
                  = <<"2","0","6"," ","b","o","n","e","s">>
        /\ \A i \in ClipsOf(ContentThirty) :
              db_component_audio_files.files[i].text = <<"3","0">>
        /\ \A i \in 1..Len(db_component_audio_files.files) :
              (/\ db_component_audio_files.files[i].type # TypeCountdown
               /\ PlainContent(db_component_audio_files.files[i].component.content)) =>
                  db_component_audio_files.files[i].text
                      = db_component_audio_files.files[i].component.content


\* The components of one kind as the script gives them, moved by the intro
ShiftedOnce(type) ==
    LET of_kind == OfType(ParsedComponents(quiz_script), type)
        shift == IF IntroConfigured THEN intro_duration ELSE 0
    IN  [i \in 1..Len(of_kind) |->
            [of_kind[i] EXCEPT !.start_time = @ + shift, !.end_time = @ + shift]]

\* C25: whatever operations have run since the constructor, the Timeline is
\* the one the constructor parsed, and every component of the script is later
\* than in the script by the intro's duration, once.
C25_TimelineImmutable ==
    Constructed =>
        /\ db_quiz_components
              = ParseQuizScript(quiz_script, intro_text, intro_duration)
        /\ db_quiz_components.questions = ShiftedOnce(TypeQuestion)
        /\ db_quiz_components.countdowns = ShiftedOnce(TypeCountdown)
        /\ db_quiz_components.answers = ShiftedOnce(TypeAnswer)
        /\ db_quiz_components.ctas = ShiftedOnce(TypeCta)
\* Every operation has run on a Timeline with an intro
C25_Witness ==
    /\ pc = "rendered"
    /\ IntroConfigured
    /\ Len(AllComponents) = 3
    /\ db_component_audio_files # None
    /\ db_timed_captions # None
    /\ countdown_segments # None
    /\ total_durations # None


\* Whether a tool of the call ended with the given outcome
Ended(tool, outcome) ==
    \E i \in 1..Len(segment_call.calls) :
        /\ segment_call.calls[i].tool = tool
        /\ segment_call.calls[i].outcome = outcome
\* The validation of the local segment, when it ran
LocalValidation ==
    SelectSeq(segment_call.calls,
              LAMBDA call : /\ call.tool = "ffprobe"
                            /\ call.input.file = "background_segment_local")

\* C26: with the full download on disk, a local extraction that gives no
\* valid segment ends in the full download; the source it was given is
\* returned after a failed extraction only without a full download.
C26_FullDownloadBeforeSource ==
    (segment_call # None /\ segment_call.calls # <<>>) =>
        /\ (/\ Ended("ffmpeg_download", "ok")
            /\ Len(ToolCalls("ffmpeg_local_extract")) = 1
            /\ \/ Ended("ffmpeg_local_extract", "nonzero")
               \/ /\ LocalValidation # <<>>
                  /\ LocalValidation[1].outcome # "valid") =>
              segment_call.result = BackgroundFull
        /\ (/\ segment_call.result = segment_call.video_url
            /\ \/ segment_call.calls[1].outcome # "ok"
               \/ Ended("ffprobe", "invalid")) =>
              ~Ended("ffmpeg_download", "ok")


\* The inputs of the mix made from the entry of the component-audio map with
\* the given key, and the inputs that are sound effects
InputsOf(key) ==
    SelectSeq(composite_audio.audio_inputs,
              LAMBDA input : input.volume = 9 /\ input.path.key = key)
EffectInputs ==
    SelectSeq(composite_audio.audio_inputs, LAMBDA input : input.volume = 7)
\* How many sound effects the Timeline asks for: one for an intro, three for
\* a countdown, one for an answer, each when its sound is there
EffectsAsked ==
    IF ~use_sound_effects THEN 0
    ELSE (IF sound_paths.intro = None THEN 0
          ELSE Len(OfType(AllComponents, TypeIntro)))
         + (IF sound_paths.countdown = None THEN 0
            ELSE 3 * Len(OfType(AllComponents, TypeCountdown)))
         + (IF sound_paths.answer = None THEN 0
            ELSE Len(OfType(AllComponents, TypeAnswer)))

\* C27: a mix has one amix input and one weight of 1.0 for the silent base
\* and for every input file, and normalize=0; an entry of the component-audio
\* map that is not a countdown gives one input, delayed by its start_time in
\* whole milliseconds, a countdown entry gives three, delayed to
\* start_time + i * slot / 3 for i = 0, 1, 2; the sound effects asked for are
\* the only other inputs.
C27_MixCommandShape ==
    (composite_audio # None /\ composite_audio.audio_inputs # <<>>) =>
        LET files == db_component_audio_files.files
        IN  /\ composite_audio.amix_inputs = 1 + Len(composite_audio.audio_inputs)
            /\ Len(composite_audio.weights) = composite_audio.amix_inputs
            /\ \A k \in 1..Len(composite_audio.weights) :
                  composite_audio.weights[k] = 10
            /\ composite_audio.normalize = 0
            /\ \A k \in 1..Len(files) :
                  IF files[k].type = TypeCountdown
                  THEN /\ Len(InputsOf(files[k].key)) = 3
                       /\ \A i \in 0..2 :
                             InputsOf(files[k].key)[i + 1].delay_ms
                                 = ((3 * files[k].start_time)
                                    + (i * (files[k].end_time - files[k].start_time)))
                                       \div (3 * Ms)
                  ELSE /\ Len(InputsOf(files[k].key)) = 1
                       /\ InputsOf(files[k].key)[1].delay_ms
                             = files[k].start_time \div Ms
            /\ Len(EffectInputs) = EffectsAsked
            /\ Len(composite_audio.audio_inputs)
                  = Len(files) + (2 * Len(OfType(files, TypeCountdown)))
                       + EffectsAsked
\* A mix with sound effects for a Timeline of two countdowns in the same slot
C27_Witness ==
    /\ composite_audio # None
    /\ use_sound_effects
    /\ Len(EffectInputs) >= 6
    /\ \E j, k \in 1..Len(db_component_audio_files.files) :
          /\ j < k
          /\ db_component_audio_files.files[j].type = TypeCountdown
          /\ db_component_audio_files.files[k].type = TypeCountdown
          /\ db_component_audio_files.files[k].start_time
                < db_component_audio_files.files[j].end_time


\* The countdown clips of the component-audio map that were mixed, and the
\* slot of each
MixedCountdowns ==
    IF composite_audio = None \/ db_component_audio_files = None THEN {}
    ELSE {k \in 1..Len(db_component_audio_files.files) :
              db_component_audio_files.files[k].type = TypeCountdown}
SlotOf(audio_info) ==
    audio_info.component.end_time - audio_info.component.start_time

\* C28: countdown sub-input i (i = 0, 1, 2) of the mix is cut from the fitted
\* countdown clip at i * L / 3 for a length of L / 3, L the duration of the
\* fitted clip, whenever L is at most the countdown's slot.
C28_CutByClipThirds ==
    \A k \in MixedCountdowns :
        LET audio_info == db_component_audio_files.files[k]
            L == audio_info.clip.duration
        IN  L <= SlotOf(audio_info) =>
                \A i \in 0..2 :
                    /\ 3 * InputsOf(audio_info.key)[i + 1].ss = i * L
                    /\ 3 * InputsOf(audio_info.key)[i + 1].t = L
\* The same for the clips that fill their slot exactly
C28_CutBySlotThirds ==
    \A k \in MixedCountdowns :
        LET audio_info == db_component_audio_files.files[k]
            L == audio_info.clip.duration
        IN  L = SlotOf(audio_info) =>
                \A i \in 0..2 :
                    /\ 3 * InputsOf(audio_info.key)[i + 1].ss = i * L
                    /\ 3 * InputsOf(audio_info.key)[i + 1].t = L


\* The places of the steps of a kind among the subprocess steps of the run
\* that made the composite track
RunSteps == MixSteps(composite_audio.audio_inputs)
StepPlaces(kind) == {j \in 1..Len(RunSteps) : RunSteps[j].step = kind}
OneLoudnormAfterSum ==
    /\ composite_audio.loudnorm_passes = 1
    /\ Cardinality(StepPlaces("normalize")) = 1
    /\ Cardinality(StepPlaces("mix")) = 1
    /\ \A n \in StepPlaces("normalize") :
          /\ \A m \in StepPlaces("mix") : m < n
          /\ n = Len(RunSteps)

\* C29: every run of _createCompositeAudioTrack that returns has made exactly
\* one loudness normalization of the composite track, after the amix step,
\* and nothing else between the sum and the return.
C29_OneLoudnormPerRun ==
    composite_audio # None => OneLoudnormAfterSum
\* The same for the runs that had something to mix
C29_OneLoudnormPerMix ==
    (composite_audio # None /\ composite_audio.audio_inputs # <<>>) =>
        OneLoudnormAfterSum


\* The callers that returned the cache path from the check at the top
CacheHits ==
    {caller \in Callers :
        /\ download_calls[caller].pc = "returned"
        /\ download_calls[caller].result = "cached_file"}
\* The callers that wrote the whole body and returned
Writers ==
    {caller \in Callers :
        /\ download_calls[caller].pc = "returned"
        /\ download_calls[caller].result = "downloaded"}
AllReturned == \A caller \in Callers : download_calls[caller].pc = "returned"

\* C30: a call of download_video_locally that finds the URL in the cache
\* returns a file that is written completely, whatever other calls for the
\* same URL are doing or have left behind; and when two calls that both
\* wrote the body have returned, the entry is complete.
C30_CacheHitIsWhole ==
    /\ \A caller \in CacheHits : download_calls[caller].whole
    /\ (AllReturned /\ Cardinality(Writers) >= 2) => IsWhole(cached_file)
\* Writers that raced on the path and both wrote the body to its end leave a
\* whole file
C30_RacingWritersLeaveWhole ==
    (AllReturned /\ Cardinality(Writers) >= 2) => IsWhole(cached_file)
\* No caller is writing and the file is in pieces: a failed download's rest
C30_RestOfFailedDownload ==
    /\ AllReturned
    /\ cached_file # None
    /\ GetSize(cached_file) > 0
    /\ ~IsWhole(cached_file)

=============================================================================
